---- MODULE Spec2Model ----
(***************************************************************************)
(* The convert-to-audiobook edge function of audioloveletter               *)
(* (supabase/functions/convert-to-audiobook/index.ts, the handler at       *)
(* lines 410-591) as a state machine over the public.conversions table,    *)
(* the audiobooks storage bucket and the TTS engine.                       *)
(*                                                                         *)
(* One action per stretch of the handler between two awaits whose effect   *)
(* another party can observe.  The results of the external calls (record   *)
(* insert and update, TTS fetch, storage upload) are inputs chosen with \E.*)
(* A record update is `await supabase.from("conversions").update(..)`: the *)
(* client resolves to {data, error} and the handler discards the result,   *)
(* so an update that the record store answers with an error changes        *)
(* nothing and the handler carries on.                                     *)
(*                                                                         *)
(* Beside the handler (Spec, FairSpec) the module holds the two reader     *)
(* functions export-kdp-json and get-audiobook-audio over the same table   *)
(* and bucket (ReadSpec), the segmenter splitIntoChapters as a function of *)
(* its text (SegSpec), and the page that starts a conversion and polls its *)
(* record (PageSpec).                                                      *)
(***************************************************************************)
EXTENDS Integers, Sequences, FiniteSets, TLC

(***************************************************************************)
(* Bounds of the model.                                                    *)
(***************************************************************************)
MaxSegments == 3

\* The longest text given to the segmenter, and the limit of a segment:
\* 4500 characters in the source (line 351), scaled to the texts of the
\* model.
MaxTextLen == 6
MAX_CHUNK_CHARS == 3

\* The most poll queries in flight at once.
MaxInflight == 2

\* The most segments of a document where two requests run at once.
MaxJobSegments == 1

\* The most calls of handlePreview that go on to fetch a preview.
MaxPreviews == 3

Requests == {"c1"}
SegLens == {150, 4500}

\* The requests that reach the clone-voice function.
CloneRequests == {"v1"}
AudioSizes == {16000, 48000}

(***************************************************************************)
(* Program constants.                                                      *)
(***************************************************************************)
BytesPerSecond == 16000
SynthesisSpan == 60
SetupProgress == 20
InsertProgress == 10
DoneProgress == 100

\* What the tests of the page expect of its polling
\* (src/test/VoiceSettings.test.tsx): a cap on the polls and on the
\* polls that fail in a row.
MAX_POLLS == 100
MAX_CONSECUTIVE_ERRORS == 5

\* chapters[i - 1].content.slice(-200), chapters[i + 1].content.slice(0, 200)
ContextChars == 200

Null == <<>>
Some(v) == <<v>>

VARIABLES
  conversions,   \* public.conversions: conversion id -> row
  audiobooks,    \* storage bucket "audiobooks": the audio objects, by path
  pc,            \* where each request's handler stands
  chapters,      \* const chapters = splitIntoChapters(text)
  i,             \* the loop index of the synthesis loop (0-based)
  audioChunks,   \* audioChunks: the buffers received, in order
  chapterMeta,   \* chapterMeta
  totalDuration, \* totalDuration
  audioUploadError, \* the error field of the storage upload's result
  thrown,        \* the message of the Error on its way to the catch block
  response,      \* the HTTP response the handler returned
  ttsLog,        \* the TTS requests issued, in order, each with its outcome
  request,       \* what each request carries: the user of its Authorization
                 \* header and the voice and voiceCloneId of its body
  voice,         \* const { data: voice }: the voice_clones row selected
  combined,      \* const combined: the buffer that is uploaded
  voiceClones,   \* public.voice_clones: clone id -> row
  clonePc,       \* where each clone-voice request's handler stands
  cloneCaller,   \* the user of each clone-voice request's Authorization header
  cloneThrown,   \* clone-voice: the message of the Error thrown
  cloneResponse, \* clone-voice: the HTTP response returned
  readerResponse, \* the last response of export-kdp-json or get-audiobook-audio
  segText,       \* splitIntoChapters: the parameter text
  segRaw,        \* splitIntoChapters: rawChapters, before the sub-split
  segChapters,   \* splitIntoChapters: the list returned
  segPc,         \* splitIntoChapters: "idle", "called" or "returned"
  chunkText,     \* splitTextIntoChunks: the parameter text
  chunks,        \* splitTextIntoChunks: const chunks, or the list returned
  remaining,     \* splitTextIntoChunks: let remaining
  partIdx,       \* splitTextIntoChunks: let partIdx
  cutoff,        \* splitTextIntoChunks: let cutoff, of the latest iteration
  chunkPc,       \* splitTextIntoChunks: "idle", "called", "loop", "returned"
  session,       \* whether the browser holds a session of the user
  state,         \* Index: const [state, setState]
  file,          \* Index: whether a file is selected
  progress,      \* Index: const [progress, setProgress]
  conversionId,  \* Index: const [conversionId, setConversionId]
  cId,           \* handleConvert: const cId = data.id
  conversionResult, \* Index: const [conversionResult, setConversionResult]
  toasts,        \* the titles of the toasts shown
  convertPc,     \* where the one run of handleConvert stands
  poll,          \* whether the interval `poll` is set
  inflight,      \* the poll queries sent with a session, not yet answered
  record,        \* the conversions row of cId, as the store holds it
  reads,         \* what the store has answered those queries, and how often
  inflightAnon,  \* the poll queries sent without one, not yet answered
  doneTimeouts,  \* the pending setTimeout(() => setState("done"), 500)
  rejections,    \* the errors thrown out of the interval callback
  observed,      \* the terminal statuses the callback has observed
  nonTerminalPolls, \* the polls answered, while every answer so far was
                 \* a record that is neither done nor failed; -1 afterwards
  consecutiveErrors, \* the latest polls answered without a record, in a row
  previewingVoice, \* VoiceSettings: const [previewingVoice, ...]
  playingVoice,  \* VoiceSettings: const [playingVoice, setPlayingVoice]
  audioRef,      \* VoiceSettings: audioRef.current, an index into audios
  audios,        \* the Audio elements handlePreview has created, in order
  previews,      \* the calls of handlePreview that went on to the session
  previewToasts  \* VoiceSettings: the titles of the toasts shown

handlerVars ==
  <<conversions, audiobooks, pc, chapters, i, audioChunks, chapterMeta,
    totalDuration, audioUploadError, thrown, response, ttsLog, request,
    voice, combined>>

\* The state of the clone-voice function and its table.
cloneVars ==
  <<voiceClones, clonePc, cloneCaller, cloneThrown, cloneResponse>>

segVars == <<segText, segRaw, segChapters, segPc>>

\* One call of splitTextIntoChunks, followed iteration by iteration.
chunkVars == <<chunkText, chunks, remaining, partIdx, cutoff, chunkPc>>

clientVars ==
  <<session, state, file, progress, conversionId, cId, conversionResult,
    toasts, convertPc, poll, inflight, inflightAnon, doneTimeouts, rejections, observed, nonTerminalPolls,
    consecutiveErrors, record, reads>>

\* The state of the voice-settings panel of the page.
panelVars ==
  <<previewingVoice, playingVoice, audioRef, audios, previews, previewToasts>>

\* What the convert-to-audiobook handler never touches.
outside ==
  <<readerResponse, segVars, chunkVars, clientVars, cloneVars, panelVars>>

\* What the reader functions never touch.
notReader ==
  <<handlerVars, segVars, chunkVars, clientVars, cloneVars, panelVars>>

\* What the page, its panel apart, never touches.
notClient ==
  <<handlerVars, readerResponse, segVars, chunkVars, cloneVars, panelVars>>

\* What the clone-voice function never touches.
notClone ==
  <<handlerVars, readerResponse, segVars, chunkVars, clientVars, panelVars>>

\* What splitTextIntoChunks never touches.
notChunk ==
  <<handlerVars, readerResponse, segVars, clientVars, cloneVars, panelVars>>

\* What the voice-settings panel never touches.
notPanel ==
  <<handlerVars, readerResponse, segVars, chunkVars, clientVars, cloneVars>>

vars == <<handlerVars, outside>>

locals == <<chapters, i, audioChunks, chapterMeta, totalDuration>>

(***************************************************************************)
(* The conversions table.                                                  *)
(***************************************************************************)
Statuses == {"pending", "parsing", "converting", "encoding", "done", "failed"}
Terminal == {"done", "failed"}

\* The column defaults of CREATE TABLE public.conversions.
RowDefaults ==
  [status |-> "pending", progress |-> 0, chapters |-> <<>>,
   audio_storage_path |-> Null, total_duration_seconds |-> Null]

\* INSERT: the given columns over the defaults.
NewRow(fields) ==
  [c \in DOMAIN RowDefaults |->
     IF c \in DOMAIN fields THEN fields[c] ELSE RowDefaults[c]]

\* UPDATE ... SET fields WHERE id = id, as one statement: the named columns
\* change together, the others keep their values; no row, no change.
UpdateRow(table, id, fields) ==
  IF id \in DOMAIN table
    THEN [table EXCEPT ![id] =
            [c \in DOMAIN table[id] |->
               IF c \in DOMAIN fields THEN fields[c] ELSE table[id][c]]]
    ELSE table

\* Math.round of the non-negative quotient a / b (halves round up).  The
\* quotients the loop forms, 60 (i + 1) / n, end in .5 only when 8 divides
\* n, and then exactly, so the integer form agrees with the double one.
Round(a, b) == (2 * a + b) \div (2 * b)

\* The mutant of ProgressFor: the share of the segments still to do.
ProgressForRemaining(k, n) == SetupProgress + Round((n - k) * SynthesisSpan, n)

\* const progress = 20 + Math.round(((i + 1) / chapters.length) * 60)
\* A mutant of ProgressFor: the synthesis phase spans 70 points.
ProgressForSeventy(k, n) == SetupProgress + Round((k + 1) * 70, n)

ProgressFor(k, n) == SetupProgress + Round((k + 1) * SynthesisSpan, n)

\* `${user.id}/${conversion.id}.mp3`
\* A mutant of AudioPath: the path is keyed by the user alone.
AudioPathPerUser(r) == <<request[r].auth, "audiobook", "mp3">>

AudioPath(r) == <<request[r].auth, r, "mp3">>

InsertFields == [status |-> "parsing", progress |-> InsertProgress]

SkeletonFields(segs) ==
  [status |-> "converting", progress |-> SetupProgress,
   chapters |-> [k \in 1..Len(segs) |->
                   [index |-> k - 1, title |-> segs[k].title,
                    charCount |-> segs[k].charCount]]]

LoopFields(k, n) == [progress |-> ProgressFor(k, n), status |-> "converting"]

FailedFields == [status |-> "failed"]

\* The mutant of DoneFields: the audio path is left out of the done update.
DoneFieldsNoPath(path, total, meta) ==
  [status |-> "done", progress |-> DoneProgress,
   total_duration_seconds |-> Some(total), chapters |-> meta]

DoneFields(path, total, meta) ==
  [status |-> "done", progress |-> DoneProgress,
   audio_storage_path |-> Some(path),
   total_duration_seconds |-> Some(total), chapters |-> meta]

\* The outcome of one record update whose result the handler discards:
\* applied, or answered with an error and not applied.
Updated(table, id, fields) == {UpdateRow(table, id, fields), table}

\* audioChunks.reduce((acc, chunk) => acc + chunk.length, 0)
RECURSIVE TotalLength(_)
TotalLength(list) ==
  IF list = << >> THEN 0 ELSE Head(list).len + TotalLength(Tail(list))

\* const combined has not been made.
NoCombined == [length |-> 0, layout |-> << >>]

\* A mutant of Combine: offset is not advanced, every chunk is set at 0.
CombineAtZero(list) ==
  [length |-> TotalLength(list),
   layout |-> [k \in 1..Len(list) |->
                 [chunk |-> list[k].seg, offset |-> 0,
                  length |-> list[k].len]]]

\* Lines 552-558: a buffer of totalLength bytes, and each chunk set into it
\* at the offset the chunks before it have advanced.  The buffer is known
\* by its length and by which chunk's bytes lie from which offset.
Combine(list) ==
  [length |-> TotalLength(list),
   layout |-> [k \in 1..Len(list) |->
                 [chunk |-> list[k].seg,
                  offset |-> TotalLength(SubSeq(list, 1, k - 1)),
                  length |-> list[k].len]]]

\* No response of a reader function yet.
NoRead ==
  [op |-> "", id |-> "", status |-> 0, error |-> "", seen |-> "",
   body |-> Null]

NoResponse == [status |-> 0, id |-> "", error |-> ""]

\* The titles splitIntoChapters gives n segments: "Full Text" for a single
\* block, "Chapter k" headings, or "Full Text (Part k)" for a sub-split block.
TitleLists(n) ==
  IF n = 1 THEN {<<<<"Full Text", 0>>>>}
  ELSE {[k \in 1..n |-> <<"Chapter", k>>],
        [k \in 1..n |-> <<"Full Text (Part", k>>]}

\* What splitIntoChapters can return: a non-empty list of titled segments
\* (line 407), each known here by its title and the length of its content.
Segmentations ==
  UNION {{[k \in 1..n |-> [title |-> titles[k], charCount |-> lens[k]]] :
            titles \in TitleLists(n), lens \in [1..n -> SegLens]} :
           n \in 1..MaxSegments}

(***************************************************************************)
(* The voice_clones table (src/unnamed/part_007, lines 6-14).              *)
(***************************************************************************)
CloneStatuses == {"pending", "processing", "ready", "failed"}

\* The users that exist.
Users == {"u1", "u2"}

\* What the Authorization header of a request resolves to: no header at
\* all, a token getUser rejects, or a user.
Auths == {"none", "bad"} \cup Users

\* const finalUserId = userId || "00000000-0000-0000-0000-000000000000"
ZeroUser == "00000000-0000-0000-0000-000000000000"

\* The voice ids the cloning engine assigns.
EngineVoiceIds == {"el1"}

\* const VOICE_MAP of preview-voice: the stock voices and their engine ids.
VOICE_MAP ==
  [george |-> "JBFqnCBsd6RMkjVDRZzb", sarah |-> "EXAVITQu4vr4xnSDxMaL",
   roger |-> "CwhRBWXzGAHq8TQ4Fs17", laura |-> "FGY2WhTYpPnrIDTdsKH5",
   charlie |-> "IKne3meq5aSn9XLyUdCD", liam |-> "TX3LPaxmHKxFdv7VOQHJ"]

\* The column defaults of CREATE TABLE public.voice_clones.
CloneDefaults ==
  [user_id |-> "", status |-> "pending", elevenlabs_voice_id |-> Null]

\* INSERT into voice_clones: the given columns over the defaults.
NewClone(fields) ==
  [c \in DOMAIN CloneDefaults |->
     IF c \in DOMAIN fields THEN fields[c] ELSE CloneDefaults[c]]

CloneReadyFields(vid) ==
  [elevenlabs_voice_id |-> Some(vid), status |-> "ready"]

CloneFailedFields == [status |-> "failed"]

NoCloneResponse == [status |-> 0, id |-> "", voice_id |-> "", error |-> ""]

NoRequest == [auth |-> "", voice |-> "", voiceCloneId |-> ""]

\* The bodies a conversion request carries: the stock voice key the page
\* sends (Index.tsx, lines 527-532), the id of a clone, or neither.
Bodies ==
  {[voice |-> "george", voiceCloneId |-> ""],
   [voice |-> "", voiceCloneId |-> "v1"],
   [voice |-> "", voiceCloneId |-> ""]}

\* No request has reached clone-voice: the table is empty.
CloneInit ==
  /\ voiceClones = << >>
  /\ clonePc = [c \in CloneRequests |-> "idle"]
  /\ cloneCaller = [c \in CloneRequests |-> ""]
  /\ cloneThrown = [c \in CloneRequests |-> ""]
  /\ cloneResponse = [c \in CloneRequests |-> NoCloneResponse]

\* clone-voice has answered user u1 with a clone that is ready.
ClonedInit ==
  /\ voiceClones =
       [c \in CloneRequests |->
          [user_id |-> "u1", status |-> "ready",
           elevenlabs_voice_id |-> Some("el1")]]
  /\ clonePc = [c \in CloneRequests |-> "returned"]
  /\ cloneCaller = [c \in CloneRequests |-> "u1"]
  /\ cloneThrown = [c \in CloneRequests |-> ""]
  /\ cloneResponse =
       [c \in CloneRequests |->
          [status |-> 200, id |-> c, voice_id |-> "el1", error |-> ""]]

\* splitTextIntoChunks is not being followed.
ChunkIdle ==
  /\ chunkText = << >>
  /\ chunks = << >>
  /\ remaining = << >>
  /\ partIdx = 0
  /\ cutoff = 0
  /\ chunkPc = "idle"

\* None of the requests S has reached convert-to-audiobook, and no request
\* the reader functions.
HandlerInitFor(S) ==
  /\ conversions = << >>
  /\ audiobooks = {}
  /\ pc = [r \in S |-> "idle"]
  /\ chapters = [r \in S |-> <<>>]
  /\ i = [r \in S |-> 0]
  /\ audioChunks = [r \in S |-> <<>>]
  /\ chapterMeta = [r \in S |-> <<>>]
  /\ totalDuration = [r \in S |-> 0]
  /\ audioUploadError = [r \in S |-> "unset"]
  /\ thrown = [r \in S |-> ""]
  /\ response = [r \in S |-> NoResponse]
  /\ ttsLog = [r \in S |-> <<>>]
  /\ request = [r \in S |-> NoRequest]
  /\ voice = [r \in S |-> Null]
  /\ combined = [r \in S |-> NoCombined]
  /\ readerResponse = NoRead

\* No request has reached convert-to-audiobook or the reader functions.
HandlerInit == HandlerInitFor(Requests)

\* The user has a cloned voice; no request has reached the other functions.
FunctionsInit == HandlerInit /\ ClonedInit

\* What .single() resolves to: no record (an error, or no row the caller
\* may read), or the record's status and progress.
NoRecord == [found |-> FALSE, status |-> "", progress |-> 0]

PollAnswers ==
  {NoRecord,
   [found |-> TRUE, status |-> "parsing", progress |-> InsertProgress],
   [found |-> TRUE, status |-> "converting", progress |-> 50],
   [found |-> TRUE, status |-> "done", progress |-> DoneProgress],
   [found |-> TRUE, status |-> "failed", progress |-> 50]}

\* VoiceSettings.tsx, lines 32-34: the panel as it is first rendered.
PanelIdle ==
  /\ previewingVoice = Null
  /\ playingVoice = Null
  /\ audioRef = Null
  /\ audios = << >>
  /\ previews = << >>
  /\ previewToasts = {}

\* Index.tsx, lines 463-472: the page as it is first rendered, for a user
\* who is signed in.
PageInit ==
  /\ PanelIdle
  /\ session = TRUE
  /\ state = "upload"
  /\ file = FALSE
  /\ progress = 0
  /\ conversionId = Null
  /\ cId = ""
  /\ conversionResult = Null
  /\ toasts = {}
  /\ convertPc = "idle"
  /\ poll = FALSE
  /\ inflight = 0
  /\ record = NoRecord
  /\ reads = [a \in PollAnswers |-> 0]
  /\ inflightAnon = 0
  /\ doneTimeouts = 0
  /\ rejections = 0
  /\ observed = {}
  /\ nonTerminalPolls = 0
  /\ consecutiveErrors = 0

Init ==
  /\ FunctionsInit
  /\ PageInit
  /\ segText = << >>
  /\ segRaw = << >>
  /\ segChapters = << >>
  /\ segPc = "idle"
  /\ ChunkIdle

\* throw new Error(msg): control passes to the catch block.
Throw(r, msg) ==
  /\ thrown' = [thrown EXCEPT ![r] = msg]
  /\ pc' = [pc EXCEPT ![r] = "catch"]

\* The mutant of LookupVoice: any row of the caller's is taken, whether or
\* not the engine has given it a voice id.
LookupVoiceAnyStatus(r) ==
  /\ pc[r] = "idle"
  /\ \E auth \in Auths, body \in Bodies :
       LET id == body.voiceCloneId
           found == id \in DOMAIN voiceClones /\ voiceClones[id].user_id = auth
       IN
       /\ request' = [request EXCEPT
                        ![r] = [auth |-> auth, voice |-> body.voice,
                                voiceCloneId |-> id]]
       /\ IF auth \in Users /\ found
            THEN /\ voice' = [voice EXCEPT ![r] = Some(voiceClones[id])]
                 /\ pc' = [pc EXCEPT ![r] = "extract"]
                 /\ UNCHANGED thrown
            ELSE Throw(r, "Voice clone not found") /\ UNCHANGED voice
  /\ UNCHANGED <<conversions, audiobooks, locals, audioUploadError, response,
                 ttsLog, combined>>
  /\ UNCHANGED outside

\* Lines 419-442: the Authorization header, getUser, the body and the
\* voice clone: .eq("id", voiceCloneId).eq("user_id", user.id).single(),
\* and the test of its elevenlabs_voice_id.
LookupVoice(r) ==
  /\ pc[r] = "idle"
  /\ \E auth \in Auths, body \in Bodies :
       LET id == body.voiceCloneId
           found == id \in DOMAIN voiceClones /\ voiceClones[id].user_id = auth
       IN
       /\ request' = [request EXCEPT
                        ![r] = [auth |-> auth, voice |-> body.voice,
                                voiceCloneId |-> id]]
       /\ IF auth = "none"
            THEN Throw(r, "Missing authorization header") /\ UNCHANGED voice
          ELSE IF auth = "bad"
            THEN Throw(r, "Unauthorized") /\ UNCHANGED voice
          ELSE IF id = ""
            THEN Throw(r, "Missing documentPath or voiceCloneId")
                 /\ UNCHANGED voice
          ELSE IF ~found
            THEN Throw(r, "Voice clone not found") /\ UNCHANGED voice
          ELSE IF voiceClones[id].elevenlabs_voice_id = Null
            THEN Throw(r, "Voice clone not ready") /\ UNCHANGED voice
          ELSE /\ voice' = [voice EXCEPT ![r] = Some(voiceClones[id])]
               /\ pc' = [pc EXCEPT ![r] = "extract"]
               /\ UNCHANGED thrown
  /\ UNCHANGED <<conversions, audiobooks, locals, audioUploadError, response,
                 ttsLog, combined>>
  /\ UNCHANGED outside

\* Lines 416-417 and 445-448: a missing API key, before the caller is
\* looked at, and a failed download of the document, after the voice is
\* found, throw before any record is created.
Reject(r) ==
  /\ pc[r] \in {"idle", "extract"}
  /\ Throw(r, "rejected")
  /\ UNCHANGED <<conversions, audiobooks, locals, audioUploadError, response,
                 ttsLog>>
  /\ UNCHANGED <<request, voice, combined>>
  /\ UNCHANGED outside

\* filename.toLowerCase().split(".").pop(), on the file names of Documents.
ExtensionOf(filename) ==
  CASE filename \in {"book.txt", "BOOK.TXT"} -> "txt"
    [] filename \in {"book.docx", "Book.Docx"} -> "docx"
    [] filename = "book.pdf" -> "pdf"
    [] filename = "book.epub" -> "epub"
    [] filename = "book.mobi" -> "mobi"
    [] OTHER -> ""

\* The documents a request can name: a file name, whether the archive of a
\* .docx holds word/document.xml, and what text the file carries ("text":
\* some visible text, "blank": white space only, "empty": nothing).
Documents ==
  [filename : {"book.txt", "BOOK.TXT", "book.docx", "Book.Docx", "book.pdf",
               "book.epub", "book.mobi", "book"},
   hasDocumentXml : BOOLEAN,
   content : {"text", "blank", "empty"}]

Extracted(text) == [error |-> "", text |-> text]
ExtractFailure(msg) == [error |-> msg, text |-> "empty"]

\* Lines 320-349.
extractTextFromDocument(d) ==
  LET ext == ExtensionOf(d.filename) IN
  IF ext = "txt" THEN Extracted(d.content)
  ELSE IF ext = "docx"
    THEN IF ~d.hasDocumentXml
           THEN ExtractFailure("Invalid .docx file: missing word/document.xml")
           ELSE Extracted(d.content)
  ELSE IF ext = "pdf" THEN Extracted(d.content)
  ELSE IF ext = "epub"
    THEN ExtractFailure("EPUB files are not yet supported")
  ELSE ExtractFailure("Unsupported file type")

\* !text.trim()
TrimIsEmpty(text) == text \in {"blank", "empty"}

\* The messages of the errors an extraction failure throws.
ExtractionErrors ==
  {"Invalid .docx file: missing word/document.xml",
   "EPUB files are not yet supported", "Unsupported file type",
   "No text could be extracted from the document"}

\* The mutant of ExtractText: the record is created before the text is
\* extracted and checked.
ExtractTextAfterInsert(r) ==
  /\ pc[r] = "extract"
  /\ \E d \in Documents :
       LET res == extractTextFromDocument(d) IN
       /\ conversions' = conversions @@ (r :> NewRow(InsertFields))
       /\ IF res.error # "" THEN Throw(r, res.error)
          ELSE IF TrimIsEmpty(res.text)
            THEN Throw(r, "No text could be extracted from the document")
          ELSE /\ pc' = [pc EXCEPT ![r] = "split"]
               /\ UNCHANGED thrown
  /\ UNCHANGED <<audiobooks, locals, audioUploadError, response, ttsLog>>
  /\ UNCHANGED <<request, voice, combined>>
  /\ UNCHANGED outside

\* Lines 450-453: the text is extracted from the downloaded document; a
\* failed extraction and a text that trims to nothing throw.
ExtractText(r) ==
  /\ pc[r] = "extract"
  /\ \E d \in Documents :
       LET res == extractTextFromDocument(d) IN
       IF res.error # "" THEN Throw(r, res.error)
       ELSE IF TrimIsEmpty(res.text)
         THEN Throw(r, "No text could be extracted from the document")
       ELSE /\ pc' = [pc EXCEPT ![r] = "insert"]
            /\ UNCHANGED thrown
  /\ UNCHANGED <<conversions, audiobooks, locals, audioUploadError, response,
                 ttsLog>>
  /\ UNCHANGED <<request, voice, combined>>
  /\ UNCHANGED outside

\* Lines 455-468: the insert, and the throw on its error.
InsertConversion(r) ==
  /\ pc[r] = "insert"
  /\ \/ /\ conversions' = conversions @@ (r :> NewRow(InsertFields))
        /\ pc' = [pc EXCEPT ![r] = "split"]
        /\ UNCHANGED thrown
     \/ /\ Throw(r, "Failed to create conversion")
        /\ UNCHANGED conversions
  /\ UNCHANGED <<audiobooks, locals, audioUploadError, response, ttsLog>>
  /\ UNCHANGED <<request, voice, combined>>
  /\ UNCHANGED outside

\* Lines 470-490: the segmentation and the chapter skeleton update.
SplitAndSkeleton(r) ==
  /\ pc[r] = "split"
  /\ \E segs \in Segmentations :
       /\ chapters' = [chapters EXCEPT ![r] = segs]
       /\ conversions' \in Updated(conversions, r, SkeletonFields(segs))
  /\ i' = [i EXCEPT ![r] = 0]
  /\ audioChunks' = [audioChunks EXCEPT ![r] = <<>>]
  /\ chapterMeta' = [chapterMeta EXCEPT ![r] = <<>>]
  /\ totalDuration' = [totalDuration EXCEPT ![r] = 0]
  /\ pc' = [pc EXCEPT ![r] = "loop"]
  /\ UNCHANGED <<audiobooks, audioUploadError, thrown, response, ttsLog>>
  /\ UNCHANGED <<request, voice, combined>>
  /\ UNCHANGED outside

\* A part of a segment's content: content.slice(from, to) of chapters[seg]
\* (0-based), absent where the slice is the empty string, which
\* `if (previousText)` and `if (nextText)` leave out of the body.
Context(seg, from, to) ==
  IF from < to THEN Some([seg |-> seg, from |-> from, to |-> to]) ELSE Null

\* content.slice(-200)
SliceLast(seg, len) ==
  Context(seg, IF len > ContextChars THEN len - ContextChars ELSE 0, len)

\* content.slice(0, 200)
SliceFirst(seg, len) ==
  Context(seg, 0, IF len > ContextChars THEN ContextChars ELSE len)

\* A mutant of TtsRequest: the contexts are taken from the wrong ends of
\* the neighbouring segments.
TtsRequestWrongEnds(r, k) ==
  LET segs == chapters[r] IN
  [seg |-> k, result |-> "inflight",
   voice_id |-> voice[r][1].elevenlabs_voice_id[1],
   previous_text |->
     IF k > 0 THEN SliceFirst(k - 1, segs[k].charCount) ELSE Null,
   next_text |->
     IF k < Len(segs) - 1 THEN SliceLast(k + 1, segs[k + 2].charCount)
     ELSE Null]

\* Lines 501-529: the request for chapters[k]: the voice it is sent to and
\* the context it carries of the segments before and after.
TtsRequest(r, k) ==
  LET segs == chapters[r] IN
  [seg |-> k, result |-> "inflight",
   voice_id |-> voice[r][1].elevenlabs_voice_id[1],
   previous_text |->
     IF k > 0 THEN SliceLast(k - 1, segs[k].charCount) ELSE Null,
   next_text |->
     IF k < Len(segs) - 1 THEN SliceFirst(k + 1, segs[k + 2].charCount)
     ELSE Null]

\* A mutant of LoopProgress: the request of the next segment is sent
\* without waiting for the response to the one before.
LoopProgressNoAwait(r) ==
  /\ pc[r] \in {"loop", "tts"}
  /\ Len(ttsLog[r]) < Len(chapters[r])
  /\ conversions' \in
       Updated(conversions, r, LoopFields(Len(ttsLog[r]), Len(chapters[r])))
  /\ ttsLog' = [ttsLog EXCEPT
                  ![r] = Append(@, TtsRequest(r, Len(ttsLog[r])))]
  /\ pc' = [pc EXCEPT ![r] = "tts"]
  /\ UNCHANGED <<audiobooks, locals, audioUploadError, thrown, response>>
  /\ UNCHANGED <<request, voice, combined>>
  /\ UNCHANGED outside

\* Lines 492-529: the loop test, the progress update and the TTS request
\* for chapters[i].
LoopProgress(r) ==
  /\ pc[r] = "loop"
  /\ i[r] < Len(chapters[r])
  /\ conversions' \in
       Updated(conversions, r, LoopFields(i[r], Len(chapters[r])))
  /\ ttsLog' = [ttsLog EXCEPT
                  ![r] = Append(@, TtsRequest(r, i[r]))]
  /\ pc' = [pc EXCEPT ![r] = "tts"]
  /\ UNCHANGED <<audiobooks, locals, audioUploadError, thrown, response>>
  /\ UNCHANGED <<request, voice, combined>>
  /\ UNCHANGED outside

Settle(log, result) == [log EXCEPT ![Len(log)].result = result]

\* A mutant of TtsOk: a chapter starts where it ends.
TtsOkStartAfter(r) ==
  /\ pc[r] = "tts"
  /\ \E bytes \in AudioSizes :
       LET estimatedDuration == bytes \div BytesPerSecond IN
       /\ audioChunks' = [audioChunks EXCEPT
                            ![r] = Append(@, [seg |-> i[r], len |-> bytes])]
       /\ chapterMeta' = [chapterMeta EXCEPT
                            ![r] = Append(@,
                               [title |-> chapters[r][i[r] + 1].title,
                                startSeconds |->
                                  totalDuration[r] + estimatedDuration,
                                durationSeconds |-> estimatedDuration])]
       /\ totalDuration' = [totalDuration EXCEPT ![r] = @ + estimatedDuration]
  /\ ttsLog' = [ttsLog EXCEPT ![r] = Settle(@, "ok")]
  /\ i' = [i EXCEPT ![r] = @ + 1]
  /\ pc' = [pc EXCEPT ![r] = "loop"]
  /\ UNCHANGED <<conversions, audiobooks, chapters, audioUploadError, thrown,
                 response>>
  /\ UNCHANGED <<request, voice, combined>>
  /\ UNCHANGED outside

\* Lines 537-549: a success response; its bytes are kept and timed.
TtsOk(r) ==
  /\ pc[r] = "tts"
  /\ \E bytes \in AudioSizes :
       LET estimatedDuration == bytes \div BytesPerSecond IN
       /\ audioChunks' = [audioChunks EXCEPT
                            ![r] = Append(@, [seg |-> i[r], len |-> bytes])]
       /\ chapterMeta' = [chapterMeta EXCEPT
                            ![r] = Append(@,
                               [title |-> chapters[r][i[r] + 1].title,
                                startSeconds |-> totalDuration[r],
                                durationSeconds |-> estimatedDuration])]
       /\ totalDuration' = [totalDuration EXCEPT ![r] = @ + estimatedDuration]
  /\ ttsLog' = [ttsLog EXCEPT ![r] = Settle(@, "ok")]
  /\ i' = [i EXCEPT ![r] = @ + 1]
  /\ pc' = [pc EXCEPT ![r] = "loop"]
  /\ UNCHANGED <<conversions, audiobooks, chapters, audioUploadError, thrown,
                 response>>
  /\ UNCHANGED <<request, voice, combined>>
  /\ UNCHANGED outside

\* The mutant of TtsHttpError: the failure is recorded but the loop goes on.
TtsHttpErrorNoThrow(r) ==
  /\ pc[r] = "tts"
  /\ conversions' \in Updated(conversions, r, FailedFields)
  /\ ttsLog' = [ttsLog EXCEPT ![r] = Settle(@, "http")]
  /\ i' = [i EXCEPT ![r] = @ + 1]
  /\ pc' = [pc EXCEPT ![r] = "loop"]
  /\ UNCHANGED <<audiobooks, chapters, audioChunks, chapterMeta,
                 totalDuration, audioUploadError, thrown, response>>
  /\ UNCHANGED <<request, voice, combined>>
  /\ UNCHANGED outside

\* The mutant of TtsHttpError: the failed segment is requested again.
TtsHttpErrorRetry(r) ==
  /\ pc[r] = "tts"
  /\ ttsLog' = [ttsLog EXCEPT
                  ![r] = Append(Settle(@, "http"), TtsRequest(r, i[r]))]
  /\ UNCHANGED <<conversions, audiobooks, pc, locals, audioUploadError,
                 thrown, response>>
  /\ UNCHANGED <<request, voice, combined>>
  /\ UNCHANGED outside

\* Lines 531-535: a non-success response marks the record failed and throws.
TtsHttpError(r) ==
  /\ pc[r] = "tts"
  /\ conversions' \in Updated(conversions, r, FailedFields)
  /\ ttsLog' = [ttsLog EXCEPT ![r] = Settle(@, "http")]
  /\ Throw(r, "TTS failed")
  /\ UNCHANGED <<audiobooks, locals, audioUploadError, response>>
  /\ UNCHANGED <<request, voice, combined>>
  /\ UNCHANGED outside

\* Lines 519 and 537: fetch, or the read of the response body, rejects; the
\* rejection is an exception that only the catch block sees.
TtsNetworkError(r) ==
  /\ pc[r] = "tts"
  /\ ttsLog' = [ttsLog EXCEPT ![r] = Settle(@, "rejected")]
  /\ Throw(r, "fetch failed")
  /\ UNCHANGED <<conversions, audiobooks, locals, audioUploadError, response>>
  /\ UNCHANGED <<request, voice, combined>>
  /\ UNCHANGED outside

\* The mutant of UploadAudio: the upload's error is not looked at.
UploadAudioUnchecked(r) ==
  /\ pc[r] = "loop"
  /\ i[r] >= Len(chapters[r])
  /\ \/ /\ audiobooks' = audiobooks \cup {AudioPath(r)}
        /\ audioUploadError' = [audioUploadError EXCEPT ![r] = "null"]
     \/ /\ audioUploadError' = [audioUploadError EXCEPT ![r] = "error"]
        /\ UNCHANGED audiobooks
  /\ pc' = [pc EXCEPT ![r] = "markdone"]
  /\ combined' = [combined EXCEPT ![r] = Combine(audioChunks[r])]
  /\ UNCHANGED <<conversions, locals, thrown, response, ttsLog>>
  /\ UNCHANGED <<request, voice>>
  /\ UNCHANGED outside

\* Lines 551-565: the loop is over; the chunks are combined and uploaded,
\* and an upload error throws.  The object stored under the path is the
\* buffer combined.
UploadAudio(r) ==
  /\ pc[r] = "loop"
  /\ i[r] >= Len(chapters[r])
  /\ \/ /\ audiobooks' = audiobooks \cup {AudioPath(r)}
        /\ audioUploadError' = [audioUploadError EXCEPT ![r] = "null"]
        /\ pc' = [pc EXCEPT ![r] = "markdone"]
        /\ UNCHANGED thrown
     \/ /\ audioUploadError' = [audioUploadError EXCEPT ![r] = "error"]
        /\ Throw(r, "Audio upload failed")
        /\ UNCHANGED audiobooks
  /\ combined' = [combined EXCEPT ![r] = Combine(audioChunks[r])]
  /\ UNCHANGED <<conversions, locals, response, ttsLog>>
  /\ UNCHANGED <<request, voice>>
  /\ UNCHANGED outside

\* Lines 567-583: the done update, then the 200 response.
MarkDone(r) ==
  /\ pc[r] = "markdone"
  /\ conversions' \in
       Updated(conversions, r,
               DoneFields(AudioPath(r), totalDuration[r], chapterMeta[r]))
  /\ response' = [response EXCEPT
                    ![r] = [status |-> 200, id |-> r, error |-> ""]]
  /\ pc' = [pc EXCEPT ![r] = "returned"]
  /\ UNCHANGED <<audiobooks, locals, audioUploadError, thrown, ttsLog>>
  /\ UNCHANGED <<request, voice, combined>>
  /\ UNCHANGED outside

\* Lines 584-590: the catch block logs the error and answers 400; it
\* touches neither the record nor the bucket.
CatchError(r) ==
  /\ pc[r] = "catch"
  /\ response' = [response EXCEPT
                    ![r] = [status |-> 400, id |-> "", error |-> thrown[r]]]
  /\ pc' = [pc EXCEPT ![r] = "returned"]
  /\ UNCHANGED <<conversions, audiobooks, locals, audioUploadError, thrown,
                 ttsLog>>
  /\ UNCHANGED <<request, voice, combined>>
  /\ UNCHANGED outside

\* A step of the handler of request r.
Step(r) ==
    \/ Reject(r)
    \/ LookupVoice(r)
    \/ ExtractText(r)
    \/ InsertConversion(r)
    \/ SplitAndSkeleton(r)
    \/ LoopProgress(r)
    \/ TtsOk(r)
    \/ TtsHttpError(r)
    \/ TtsNetworkError(r)
    \/ UploadAudio(r)
    \/ MarkDone(r)
    \/ CatchError(r)

Next == \E r \in Requests : Step(r)

Spec == Init /\ [][Next]_vars

\* Every external call returns and the runtime keeps the handler running
\* until it has returned its response.
FairSpec == Spec /\ WF_vars(Next)

(***************************************************************************)
(* Two requests at once: each invocation of the handler has its own        *)
(* locals; the table and the bucket are shared.                            *)
(***************************************************************************)
Jobs == {"c1", "c2"}

\* The documents of the two requests: few short segments, and every audio
\* buffer of the shortest length.
JobInputs ==
  \A r \in Jobs :
    /\ Len(chapters[r]) <= MaxJobSegments
    /\ \A k \in 1..Len(chapters[r]) : chapters[r][k].charCount = 150
    /\ \A k \in 1..Len(audioChunks[r]) : audioChunks[r][k].len = 16000

JobsInit ==
  /\ HandlerInitFor(Jobs)
  /\ ClonedInit
  /\ PageInit
  /\ segText = << >>
  /\ segRaw = << >>
  /\ segChapters = << >>
  /\ segPc = "idle"
  /\ ChunkIdle

JobsNext == (\E r \in Jobs : Step(r)) /\ JobInputs'

JobsSpec == JobsInit /\ [][JobsNext]_vars

(***************************************************************************)
(* The reader functions export-kdp-json and get-audiobook-audio            *)
(* (src/unnamed/part_003).  Each is one request: it reads the record       *)
(* once and answers.                                                       *)
(***************************************************************************)
\* Who calls: a caller the checks of lines 22-35 turn away (no
\* Authorization header, a token getUser rejects, no conversionId), the
\* user the conversion belongs to, another user.
Callers == {"none", "owner", "other"}

\* The catch block: status 400 and the message.
ReadError(op, id, msg, seen) ==
  [op |-> op, id |-> id, status |-> 400, error |-> msg, seen |-> seen,
   body |-> Null]

ReadOk(op, id, seen, body) ==
  [op |-> op, id |-> id, status |-> 200, error |-> "", seen |-> seen,
   body |-> Some(body)]

\* Lines 22-35 and 122-137: the checks both functions make first.
AuthError(id, caller) == IF caller = "none" THEN "Unauthorized" ELSE ""

\* .eq("id", conversionId).eq("user_id", user.id).single()
Selected(id, caller) == id \in DOMAIN conversions /\ caller = "owner"

\* Lines 46-94, as far as the record decides it.
kdpJson(row) ==
  [format |-> "acx-audiobook-metadata",
   totalDurationSeconds |->
     IF row.total_duration_seconds = Null THEN 0
     ELSE row.total_duration_seconds[1],
   chapters |-> Len(row.chapters)]

\* A mutant of ExportKdp: the status of the record is not checked.
ExportKdpUnchecked(id, caller) ==
  /\ readerResponse' =
       IF AuthError(id, caller) # ""
         THEN ReadError("export", id, AuthError(id, caller), "")
       ELSE IF ~Selected(id, caller)
         THEN ReadError("export", id, "Conversion not found", "")
       ELSE ReadOk("export", id, conversions[id].status,
                   kdpJson(conversions[id]))
  /\ UNCHANGED notReader

\* export-kdp-json, lines 16-107.
ExportKdp(id, caller) ==
  /\ readerResponse' =
       IF AuthError(id, caller) # ""
         THEN ReadError("export", id, AuthError(id, caller), "")
       ELSE IF ~Selected(id, caller)
         THEN ReadError("export", id, "Conversion not found", "")
       ELSE IF conversions[id].status # "done"
         THEN ReadError("export", id, "Conversion not complete",
                        conversions[id].status)
       ELSE ReadOk("export", id, conversions[id].status,
                   kdpJson(conversions[id]))
  /\ UNCHANGED notReader

\* The result of storage.from("audiobooks").download(path): the object, or
\* an error; an object that is not there is an error.
Downloads(path) ==
  {"error"} \cup (IF path \in audiobooks THEN {"data"} ELSE {})

\* A mutant of GetAudio: the audio is fetched from the path the pipeline
\* uploads to, whatever the record says.
GetAudioByConvention(id, caller) ==
  /\ IF AuthError(id, caller) # ""
       THEN readerResponse' = ReadError("audio", id, AuthError(id, caller), "")
     ELSE IF ~Selected(id, caller)
       THEN readerResponse' = ReadError("audio", id, "Audio not found", "")
     ELSE \E dl \in Downloads(AudioPath(id)) :
            readerResponse' =
              IF dl = "error"
                THEN ReadError("audio", id, "Download failed", "")
                ELSE ReadOk("audio", id, "", AudioPath(id))
  /\ UNCHANGED notReader

\* get-audiobook-audio, lines 117-169.
GetAudio(id, caller) ==
  /\ IF AuthError(id, caller) # ""
       THEN readerResponse' = ReadError("audio", id, AuthError(id, caller), "")
     ELSE IF \/ ~Selected(id, caller)
             \/ conversions[id].audio_storage_path = Null
       THEN readerResponse' = ReadError("audio", id, "Audio not found", "")
     ELSE \E dl \in Downloads(conversions[id].audio_storage_path[1]) :
            readerResponse' =
              IF dl = "error"
                THEN ReadError("audio", id, "Download failed", "")
                ELSE ReadOk("audio", id, "",
                            conversions[id].audio_storage_path[1])
  /\ UNCHANGED notReader

ReadNext ==
  \E id \in Requests, caller \in Callers :
    \/ ExportKdp(id, caller)
    \/ GetAudio(id, caller)

\* The pipeline with the two reader functions called at any time.
ReadSpec == Init /\ [][Next \/ ReadNext]_vars

(***************************************************************************)
(* The function clone-voice (src/unnamed/part_004, lines 1-98).  It works  *)
(* with the service role key, which row level security does not bind, and  *)
(* never reads the Authorization header of its request.                    *)
(***************************************************************************)
\* What the Authorization header of a clone-voice request resolves to.
CloneAuths == {"none", "u1"}

\* The userId of the body: absent, or the id of a user.
BodyUserIds == {""} \cup Users

\* throw new Error(msg), inside clone-voice.
CloneThrow(c, msg) ==
  /\ cloneThrown' = [cloneThrown EXCEPT ![c] = msg]
  /\ clonePc' = [clonePc EXCEPT ![c] = "catch"]

\* Lines 15-29: no API key, or a body without storagePath.
CloneReject(c) ==
  /\ clonePc[c] = "idle"
  /\ CloneThrow(c, "No storagePath provided")
  /\ UNCHANGED <<voiceClones, cloneCaller, cloneResponse>>
  /\ UNCHANGED notClone

\* Lines 26-42: the body is read, the record is inserted with status
\* "processing" under the userId of the body, or under the zero uuid where
\* the body has none; an error of the insert throws.
CloneInsert(c) ==
  /\ clonePc[c] = "idle"
  /\ \E caller \in CloneAuths, userId \in BodyUserIds :
       LET finalUserId == IF userId = "" THEN ZeroUser ELSE userId IN
       /\ cloneCaller' = [cloneCaller EXCEPT ![c] = caller]
       /\ \/ /\ voiceClones' =
                   voiceClones @@
                     (c :> NewClone([user_id |-> finalUserId,
                                     status |-> "processing"]))
             /\ clonePc' = [clonePc EXCEPT ![c] = "download"]
             /\ UNCHANGED cloneThrown
          \/ /\ CloneThrow(c, "DB insert failed")
             /\ UNCHANGED voiceClones
  /\ UNCHANGED cloneResponse
  /\ UNCHANGED notClone

\* Lines 46-54: the sample is downloaded; on an error the record is
\* updated to "failed", the result of the update discarded, and the
\* handler throws.
CloneDownload(c) ==
  /\ clonePc[c] = "download"
  /\ \/ /\ clonePc' = [clonePc EXCEPT ![c] = "engine"]
        /\ UNCHANGED <<voiceClones, cloneThrown>>
     \/ /\ voiceClones' \in Updated(voiceClones, c, CloneFailedFields)
        /\ CloneThrow(c, "Storage download failed")
  /\ UNCHANGED <<cloneCaller, cloneResponse>>
  /\ UNCHANGED notClone

\* Lines 63-89: the engine answers with success: the body is parsed, the
\* record is updated to "ready" with the voice id, the result of the
\* update discarded, and the handler answers 200.
CloneEngineOk(c) ==
  /\ clonePc[c] = "engine"
  /\ \E vid \in EngineVoiceIds :
       /\ voiceClones' \in Updated(voiceClones, c, CloneReadyFields(vid))
       /\ cloneResponse' =
            [cloneResponse EXCEPT
               ![c] = [status |-> 200, id |-> c, voice_id |-> vid,
                       error |-> ""]]
  /\ clonePc' = [clonePc EXCEPT ![c] = "returned"]
  /\ UNCHANGED <<cloneCaller, cloneThrown>>
  /\ UNCHANGED notClone

\* Lines 69-74: the engine answers without success: the record is updated
\* to "failed", the result of the update discarded, and the handler throws.
CloneEngineError(c) ==
  /\ clonePc[c] = "engine"
  /\ voiceClones' \in Updated(voiceClones, c, CloneFailedFields)
  /\ CloneThrow(c, "ElevenLabs clone failed")
  /\ UNCHANGED <<cloneCaller, cloneResponse>>
  /\ UNCHANGED notClone

\* Lines 63-67 and 76: the promise of fetch rejects, or elResponse.json()
\* does on a body that is not JSON: control passes to the catch block
\* with no update of the record.
CloneEngineRaise(c) ==
  /\ clonePc[c] = "engine"
  /\ CloneThrow(c, "fetch failed")
  /\ UNCHANGED <<voiceClones, cloneCaller, cloneResponse>>
  /\ UNCHANGED notClone

\* Lines 91-97: the catch block logs the error and answers 400; it does
\* not touch the record.
CloneCatch(c) ==
  /\ clonePc[c] = "catch"
  /\ cloneResponse' =
       [cloneResponse EXCEPT
          ![c] = [status |-> 400, id |-> "", voice_id |-> "",
                  error |-> cloneThrown[c]]]
  /\ clonePc' = [clonePc EXCEPT ![c] = "returned"]
  /\ UNCHANGED <<voiceClones, cloneCaller, cloneThrown>>
  /\ UNCHANGED notClone

CloneNext ==
  \E c \in CloneRequests :
    \/ CloneReject(c)
    \/ CloneInsert(c)
    \/ CloneDownload(c)
    \/ CloneEngineOk(c)
    \/ CloneEngineError(c)
    \/ CloneEngineRaise(c)
    \/ CloneCatch(c)

\* No voice has been cloned yet.
VoiceInit ==
  /\ HandlerInit
  /\ CloneInit
  /\ PageInit
  /\ segText = << >>
  /\ segRaw = << >>
  /\ segChapters = << >>
  /\ segPc = "idle"
  /\ ChunkIdle

\* clone-voice and convert-to-audiobook, side by side.
VoiceSpec == VoiceInit /\ [][Next \/ CloneNext]_vars

(***************************************************************************)
(* The segmenter: splitIntoChapters and splitTextIntoChunks (index.ts,     *)
(* lines 351-408) as functions of the text.  A text is a sequence of       *)
(* characters: "a" is any visible character, "." the full stop, "?" the    *)
(* question mark or the exclamation mark, " " and "\n" are the white       *)
(* space, and "C" is a heading start, the characters that Chapter\s+\d+    *)
(* matches.                                                                *)
(***************************************************************************)
Chars == {"a", ".", "?", " ", "\n", "C"}
WhiteSpace == {" ", "\n"}

Texts == UNION {[1..n -> Chars] : n \in 0..MaxTextLen}

Max(S) == CHOOSE x \in S : \A y \in S : y <= x
Min(S) == CHOOSE x \in S : \A y \in S : x <= y

\* String.prototype.slice(from, to) and slice(from), 0-based.
Slice(s, from, to) == SubSeq(s, from + 1, to)
SliceFrom(s, from) == SubSeq(s, from + 1, Len(s))

\* String.prototype.trim().
Trim(s) ==
  LET visible == {k \in 1..Len(s) : s[k] \notin WhiteSpace} IN
  IF visible = {} THEN << >> ELSE SubSeq(s, Min(visible), Max(visible))

\* s.lastIndexOf(c1 + c2), 0-based, -1 when there is none.
LastIndexOf(s, c1, c2) ==
  Max({-1} \cup {k \in 0..(Len(s) - 2) : s[k + 1] = c1 /\ s[k + 2] = c2})

\* Line 370.
LastSentenceEnd(slice) ==
  Max({LastIndexOf(slice, ".", " "), LastIndexOf(slice, ".", "\n"),
       LastIndexOf(slice, "?", " ")})

\* A mutant of Cutoff: the last sentence end is taken wherever it lies.
CutoffAnySentenceEnd(rest) ==
  LET lastSentenceEnd == LastSentenceEnd(Slice(rest, 0, MAX_CHUNK_CHARS))
  IN IF lastSentenceEnd >= 0 THEN lastSentenceEnd + 1 ELSE MAX_CHUNK_CHARS

\* A mutant of Cutoff: the cut is after the last sentence end, found or not.
CutoffUnguarded(rest) ==
  LastSentenceEnd(Slice(rest, 0, MAX_CHUNK_CHARS)) + 1

\* Lines 366-373: where the remaining text, rest, is cut.
Cutoff(rest) ==
  LET lastSentenceEnd == LastSentenceEnd(Slice(rest, 0, MAX_CHUNK_CHARS))
  IN IF 10 * lastSentenceEnd > 3 * MAX_CHUNK_CHARS
       THEN lastSentenceEnd + 1
       ELSE MAX_CHUNK_CHARS

\* `${baseTitle} (Part ${partIdx})`; part 0 is the bare title.
PartTitle(baseTitle, idx) == [base |-> baseTitle, part |-> idx]

\* A mutant of ChunkLoop: idx is not incremented.
RECURSIVE ChunkLoopSamePart(_, _, _)
ChunkLoopSamePart(rest, baseTitle, idx) ==
  IF Len(rest) = 0 THEN << >>
  ELSE IF Len(rest) <= MAX_CHUNK_CHARS
    THEN <<[title |-> PartTitle(baseTitle, idx),
            content |-> Trim(rest)]>>
  ELSE LET cut == Cutoff(rest) IN
       <<[title |-> PartTitle(baseTitle, idx),
          content |-> Trim(Slice(rest, 0, cut))]>>
       \o ChunkLoopSamePart(Trim(SliceFrom(rest, cut)), baseTitle,
                            idx)

\* Lines 361-376: the while loop.
RECURSIVE ChunkLoop(_, _, _)
ChunkLoop(rest, baseTitle, idx) ==
  IF Len(rest) = 0 THEN << >>
  ELSE IF Len(rest) <= MAX_CHUNK_CHARS
    THEN <<[title |-> PartTitle(baseTitle, idx),
            content |-> Trim(rest)]>>
  ELSE LET cut == Cutoff(rest) IN
       <<[title |-> PartTitle(baseTitle, idx),
          content |-> Trim(Slice(rest, 0, cut))]>>
       \o ChunkLoop(Trim(SliceFrom(rest, cut)), baseTitle,
                    idx + 1)

\* Lines 354-378.
splitTextIntoChunks(text, baseTitle) ==
  IF Len(text) <= MAX_CHUNK_CHARS
    THEN <<[title |-> PartTitle(baseTitle, 0), content |-> text]>>
    ELSE ChunkLoop(text, baseTitle, 1)

\* The texts splitTextIntoChunks is followed on: to it a heading start is
\* a visible character like any other, and "a" stands for it.
ChunkTexts == UNION {[1..n -> Chars \ {"C"}] : n \in 0..MaxTextLen}

\* splitTextIntoChunks is called with any text, as the one block of a
\* text without chapters.
ChunkInit ==
  /\ FunctionsInit
  /\ PageInit
  /\ segText = << >>
  /\ segRaw = << >>
  /\ segChapters = << >>
  /\ segPc = "idle"
  /\ chunkText \in ChunkTexts
  /\ chunks = << >>
  /\ remaining = << >>
  /\ partIdx = 0
  /\ cutoff = 0
  /\ chunkPc = "called"

\* Lines 355-360: a text within the limit is returned as one chunk under
\* the bare title; otherwise the loop is entered with the whole text.
ChunkEnter ==
  /\ chunkPc = "called"
  /\ IF Len(chunkText) <= MAX_CHUNK_CHARS
       THEN /\ chunks' = <<[title |-> PartTitle(<<"Full Text">>, 0),
                            content |-> chunkText]>>
            /\ chunkPc' = "returned"
            /\ UNCHANGED <<remaining, partIdx>>
       ELSE /\ chunks' = << >>
            /\ remaining' = chunkText
            /\ partIdx' = 1
            /\ chunkPc' = "loop"
  /\ UNCHANGED <<chunkText, cutoff>>
  /\ UNCHANGED notChunk

\* Lines 361-377: one pass of while (remaining.length > 0): the test, the
\* last chunk and the break, or the cut, the chunk and the rest.
ChunkIterate ==
  /\ chunkPc = "loop"
  /\ IF Len(remaining) = 0
       THEN /\ chunkPc' = "returned"
            /\ UNCHANGED <<chunks, remaining, partIdx, cutoff>>
     ELSE IF Len(remaining) <= MAX_CHUNK_CHARS
       THEN /\ chunks' =
                 Append(chunks, [title |-> PartTitle(<<"Full Text">>, partIdx),
                                 content |-> Trim(remaining)])
            /\ chunkPc' = "returned"
            /\ UNCHANGED <<remaining, partIdx, cutoff>>
     ELSE /\ cutoff' = Cutoff(remaining)
          /\ chunks' =
               Append(chunks, [title |-> PartTitle(<<"Full Text">>, partIdx),
                               content |-> Trim(Slice(remaining, 0, cutoff'))])
          /\ remaining' = Trim(SliceFrom(remaining, cutoff'))
          /\ partIdx' = partIdx + 1
          /\ UNCHANGED chunkPc
  /\ UNCHANGED chunkText
  /\ UNCHANGED notChunk

ChunkNext == ChunkEnter \/ ChunkIterate

ChunkSpec == ChunkInit /\ [][ChunkNext]_vars

\* The runtime keeps the loop running until the function returns.
FairChunkSpec == ChunkSpec /\ WF_vars(ChunkNext)

\* text.matchAll(chapterPattern): the index of each match, 0-based.  The
\* pattern has no m flag, so ^ is the start of the text; elsewhere a match
\* begins at the line break before the heading.
MatchIndexes(text) ==
  {p \in 0..(Len(text) - 1) :
     \/ p = 0 /\ text[1] = "C"
     \/ text[p + 1] = "\n" /\ p + 2 <= Len(text) /\ text[p + 2] = "C"}

\* matches[i][1]: the heading, from its first character to the end of
\* the line.
HeadingAt(text, p) ==
  LET from == IF text[p + 1] = "C" THEN p ELSE p + 1
      breaks == {q \in from..(Len(text) - 1) : text[q + 1] = "\n"}
  IN Slice(text, from, IF breaks = {} THEN Len(text) ELSE Min(breaks))

\* The set S of numbers in increasing order.
RECURSIVE Sorted(_)
Sorted(S) == IF S = {} THEN << >> ELSE <<Min(S)>> \o Sorted(S \ {Min(S)})

\* A mutant of RawChapters: one heading is enough to cut chapters.
RawChaptersOneMatch(text) ==
  LET matches == Sorted(MatchIndexes(text)) IN
  IF Len(matches) >= 1
    THEN [k \in 1..Len(matches) |->
            [title |-> Trim(HeadingAt(text, matches[k])),
             content |->
               Trim(Slice(text, matches[k],
                          IF k < Len(matches) THEN matches[k + 1]
                                              ELSE Len(text)))]]
    ELSE <<[title |-> <<"Full Text">>, content |-> text]>>

\* Lines 385-398.
RawChapters(text) ==
  LET matches == Sorted(MatchIndexes(text)) IN
  IF Len(matches) >= 2
    THEN [k \in 1..Len(matches) |->
            [title |-> Trim(HeadingAt(text, matches[k])),
             content |->
               Trim(Slice(text, matches[k],
                          IF k < Len(matches) THEN matches[k + 1]
                                              ELSE Len(text)))]]
    ELSE <<[title |-> <<"Full Text">>, content |-> text]>>

RECURSIVE Flatten(_)
Flatten(lists) ==
  IF lists = << >> THEN << >> ELSE Head(lists) \o Flatten(Tail(lists))

\* A mutant of splitIntoChapters: the raw chapters are returned as they
\* are, without the split of lines 401-405.
splitIntoRawChapters(text) ==
  [k \in 1..Len(RawChapters(text)) |->
     [title |-> PartTitle(RawChapters(text)[k].title, 0),
      content |-> RawChapters(text)[k].content]]

\* Lines 381-408.
splitIntoChapters(text) ==
  LET rawChapters == RawChapters(text)
      finalChapters ==
        Flatten([k \in 1..Len(rawChapters) |->
                   splitTextIntoChunks(rawChapters[k].content,
                                       rawChapters[k].title)])
  IN IF Len(finalChapters) > 0 THEN finalChapters
     ELSE <<[title |-> PartTitle(<<"Full Text">>, 0), content |-> text]>>

\* The segmenter is called with any text.
SegInit ==
  /\ FunctionsInit
  /\ PageInit
  /\ segText \in Texts
  /\ segRaw = << >>
  /\ segChapters = << >>
  /\ segPc = "called"
  /\ ChunkIdle

\* const chapters = splitIntoChapters(text), line 470.
Segment ==
  /\ segPc = "called"
  /\ segRaw' = RawChapters(segText)
  /\ segChapters' = splitIntoChapters(segText)
  /\ segPc' = "returned"
  /\ UNCHANGED <<segText, handlerVars, readerResponse, chunkVars, clientVars,
                 cloneVars, panelVars>>

SegSpec == SegInit /\ [][Segment]_vars

(***************************************************************************)
(* The page (src/pages/Index.tsx, lines 463-669): the user's actions and   *)
(* one run of handleConvert with its polling interval.  What the network   *)
(* answers (the upload, the convert request, each poll query) is an input. *)
(* The interval fires every 3000 ms whether or not the query before it has *)
(* been answered, and a query in flight is answered after clearInterval    *)
(* too.                                                                    *)
(***************************************************************************)
\* Lines 488-491.
handleFileSelect ==
  /\ state \in {"upload", "settings"}
  /\ file' = TRUE
  /\ state' = "settings"
  /\ UNCHANGED <<session, progress, conversionId, cId, conversionResult,
                 toasts, convertPc, poll, inflight, inflightAnon,
                 doneTimeouts, rejections, observed, nonTerminalPolls,
                 consecutiveErrors>>
  /\ UNCHANGED <<record, reads>>
  /\ UNCHANGED notClient

\* Lines 493-496.
handleClearFile ==
  /\ state \in {"upload", "settings"}
  /\ file' = FALSE
  /\ state' = "upload"
  /\ UNCHANGED <<session, progress, conversionId, cId, conversionResult,
                 toasts, convertPc, poll, inflight, inflightAnon,
                 doneTimeouts, rejections, observed, nonTerminalPolls,
                 consecutiveErrors>>
  /\ UNCHANGED <<record, reads>>
  /\ UNCHANGED notClient

\* Lines 498-504: the button is clicked, for the first time.
handleConvert ==
  /\ state = "settings"
  /\ convertPc = "idle"
  /\ file
  /\ state' = "converting"
  /\ progress' = 5
  /\ convertPc' = "upload"
  /\ UNCHANGED <<session, file, conversionId, cId, conversionResult, toasts,
                 poll, inflight, inflightAnon, doneTimeouts, rejections,
                 observed, nonTerminalPolls, consecutiveErrors>>
  /\ UNCHANGED <<record, reads>>
  /\ UNCHANGED notClient

\* Lines 575-582: the catch block of handleConvert.
ConvertCatch ==
  /\ toasts' = toasts \cup {"Conversion failed"}
  /\ state' = "settings"
  /\ convertPc' = "caught"

\* Lines 506-517: the session and the upload of the document; without a
\* session line 507 throws.
UploadDocument ==
  /\ convertPc = "upload"
  /\ \E ok \in BOOLEAN :
       IF ok /\ session
         THEN /\ progress' = 10
              /\ convertPc' = "fetch"
              /\ UNCHANGED <<state, toasts>>
         ELSE ConvertCatch /\ UNCHANGED progress
  /\ UNCHANGED <<session, file, conversionId, cId, conversionResult, poll,
                 inflight, inflightAnon, doneTimeouts, rejections, observed,
                 nonTerminalPolls, consecutiveErrors>>
  /\ UNCHANGED <<record, reads>>
  /\ UNCHANGED notClient

\* Lines 519-573: the convert request; on its success the interval is set.
\* The function has created the record of data.id by then, and the record
\* is at any of its stages.
FetchConvert ==
  /\ convertPc = "fetch"
  /\ \E id \in Requests, ok \in BOOLEAN :
       IF ok
         THEN /\ conversionId' = Some(id)
              /\ cId' = id
              /\ poll' = TRUE
              /\ convertPc' = "polling"
              /\ record' \in PollAnswers \ {NoRecord}
              /\ UNCHANGED <<state, toasts>>
         ELSE ConvertCatch /\ UNCHANGED <<conversionId, cId, poll, record>>
  /\ UNCHANGED <<session, file, progress, conversionResult, inflight,
                 inflightAnon, doneTimeouts, rejections, observed,
                 nonTerminalPolls, consecutiveErrors, reads>>
  /\ UNCHANGED notClient

\* The record moves on while the page polls: parsing, converting, then
\* done or failed, its progress never lower than before.
RecordAdvance ==
  /\ convertPc = "polling"
  /\ \E next \in PollAnswers \ {NoRecord} :
       /\ \/ record.status = "parsing" /\ next.status = "converting"
          \/ record.status = "converting" /\ next.status \in Terminal
       /\ next.progress >= record.progress
       /\ record' = next
  /\ UNCHANGED <<session, state, file, progress, conversionId, cId,
                 conversionResult, toasts, convertPc, poll, inflight,
                 inflightAnon, doneTimeouts, rejections, observed,
                 nonTerminalPolls, consecutiveErrors, reads>>
  /\ UNCHANGED notClient

\* Lines 542-547: the interval fires and the callback sends its query,
\* which the store answers with the record as it is, or with an error;
\* the answer is then on its way to the page.
PollTick ==
  /\ poll
  /\ inflight + inflightAnon < MaxInflight
  /\ IF session
       THEN /\ inflight' = inflight + 1
            /\ \E conv \in {record, NoRecord} :
                 reads' = [reads EXCEPT ![conv] = @ + 1]
            /\ UNCHANGED inflightAnon
       ELSE /\ inflightAnon' = inflightAnon + 1
            /\ UNCHANGED <<inflight, reads>>
  /\ UNCHANGED record
  /\ UNCHANGED <<session, state, file, progress, conversionId, cId,
                 conversionResult, toasts, convertPc, poll, doneTimeouts,
                 rejections, observed, nonTerminalPolls, consecutiveErrors>>
  /\ UNCHANGED notClient

\* Lines 549-572: the callback from the answer of its query to its end.
\* The throw of line 571 leaves an async callback that nothing awaits.
PollCallback(conv) ==
  /\ consecutiveErrors' =
       IF conv.found THEN 0
       ELSE IF consecutiveErrors < MAX_CONSECUTIVE_ERRORS
         THEN consecutiveErrors + 1
         ELSE consecutiveErrors
  /\ nonTerminalPolls' =
       IF nonTerminalPolls < 0 \/ ~conv.found \/ conv.status \in Terminal
         THEN -1
       ELSE IF nonTerminalPolls < MAX_POLLS THEN nonTerminalPolls + 1
       ELSE nonTerminalPolls
  /\ IF ~conv.found
       THEN UNCHANGED <<progress, poll, conversionResult, doneTimeouts,
                        rejections, observed>>
     ELSE IF conv.status = "done"
       THEN /\ poll' = FALSE
            /\ conversionResult' = Some(cId)
            /\ progress' = 100
            /\ doneTimeouts' = doneTimeouts + 1
            /\ observed' = observed \cup {"done"}
            /\ UNCHANGED rejections
     ELSE IF conv.status = "failed"
       THEN /\ progress' = conv.progress
            /\ poll' = FALSE
            /\ rejections' = rejections + 1
            /\ observed' = observed \cup {"failed"}
            /\ UNCHANGED <<conversionResult, doneTimeouts>>
     ELSE /\ progress' = conv.progress
          /\ UNCHANGED <<poll, conversionResult, doneTimeouts,
                         rejections, observed>>
  /\ UNCHANGED <<session, state, file, conversionId, cId, toasts, convertPc>>

\* An answer reaches the page, in whatever order the answers arrive; a
\* query sent without a session finds no record it may read (the policies
\* of src/unnamed/part_007, line 41).
PollAnswer ==
  /\ \E anon \in BOOLEAN :
       IF anon
         THEN /\ inflightAnon > 0
              /\ inflightAnon' = inflightAnon - 1
              /\ UNCHANGED <<inflight, reads>>
              /\ PollCallback(NoRecord)
         ELSE /\ inflight > 0
              /\ inflight' = inflight - 1
              /\ UNCHANGED inflightAnon
              /\ \E conv \in PollAnswers :
                   /\ reads[conv] > 0
                   /\ reads' = [reads EXCEPT ![conv] = @ - 1]
                   /\ PollCallback(conv)
  /\ UNCHANGED record
  /\ UNCHANGED notClient

\* Line 567: a timeout set by the done branch runs out.
DoneTimeout ==
  /\ doneTimeouts > 0
  /\ doneTimeouts' = doneTimeouts - 1
  /\ state' = "done"
  /\ UNCHANGED <<session, file, progress, conversionId, cId,
                 conversionResult, toasts, convertPc, poll, inflight,
                 inflightAnon, rejections, observed, nonTerminalPolls,
                 consecutiveErrors>>
  /\ UNCHANGED <<record, reads>>
  /\ UNCHANGED notClient

\* Lines 658-664.
handleReset ==
  /\ state = "done"
  /\ file' = FALSE
  /\ conversionId' = Null
  /\ conversionResult' = Null
  /\ progress' = 0
  /\ state' = "upload"
  /\ UNCHANGED <<session, cId, toasts, convertPc, poll, inflight,
                 inflightAnon, doneTimeouts, rejections, observed,
                 nonTerminalPolls, consecutiveErrors>>
  /\ UNCHANGED <<record, reads>>
  /\ UNCHANGED notClient

\* Lines 666-669; the button is shown in every state but auth (line 680).
handleSignOut ==
  /\ state # "auth"
  /\ session' = FALSE
  /\ state' = "auth"
  /\ UNCHANGED <<file, progress, conversionId, cId, conversionResult, toasts,
                 convertPc, poll, inflight, inflightAnon, doneTimeouts,
                 rejections, observed, nonTerminalPolls, consecutiveErrors>>
  /\ UNCHANGED <<record, reads>>
  /\ UNCHANGED notClient

\* Line 771.
onAuthSuccess ==
  /\ state = "auth"
  /\ session' = TRUE
  /\ state' = "upload"
  /\ UNCHANGED <<file, progress, conversionId, cId, conversionResult, toasts,
                 convertPc, poll, inflight, inflightAnon, doneTimeouts,
                 rejections, observed, nonTerminalPolls, consecutiveErrors>>
  /\ UNCHANGED <<record, reads>>
  /\ UNCHANGED notClient

PageNext ==
  \/ handleFileSelect
  \/ handleClearFile
  \/ handleConvert
  \/ UploadDocument
  \/ FetchConvert
  \/ RecordAdvance
  \/ PollTick
  \/ PollAnswer
  \/ DoneTimeout
  \/ handleReset
  \/ handleSignOut
  \/ onAuthSuccess

PageSpec == Init /\ [][PageNext]_vars

(***************************************************************************)
(* The claims.                                                             *)
(***************************************************************************)
Row(id) == conversions[id]
Ids == DOMAIN conversions

\* The edges C1 allows the persisted status to change along.
AllowedEdges ==
  {<<"pending", "parsing">>, <<"parsing", "converting">>,
   <<"converting", "converting">>, <<"converting", "done">>,
   <<"converting", "failed">>}

\* C1: the persisted status of a conversion changes only along
\* pending->parsing, parsing->converting, converting->converting,
\* converting->done and converting->failed, and a done or failed status is
\* never changed by a later update.
C1_StatusEdges ==
  [][\A id \in Ids :
       /\ id \in DOMAIN conversions'
       /\ \/ conversions'[id].status = Row(id).status
          \/ <<Row(id).status, conversions'[id].status>> \in AllowedEdges]_vars

\* C2: a done record has its audio path and total duration set, its
\* progress at 100 and the final timed chapters, all written by the one
\* update that set the status; and only a done record has an audio path.
C2_DoneConsistent ==
  \A id \in Ids :
    /\ Row(id).status = "done" =>
         /\ Row(id).audio_storage_path # Null
         /\ Row(id).total_duration_seconds # Null
         /\ Row(id).progress = 100
         /\ Row(id).chapters = chapterMeta[id]
    /\ Row(id).audio_storage_path # Null => Row(id).status = "done"

C2_Witness ==
  \E id \in Ids : Row(id).status = "done" /\ response[id].status = 200

\* C3: once a record is failed, no later step of the pipeline changes its
\* status, its progress or any other of its fields.
C3_FailedFrozen ==
  [][\A id \in Ids :
       Row(id).status = "failed" =>
         id \in DOMAIN conversions' /\ conversions'[id] = Row(id)]_vars

\* The handler has run on after it marked the record failed.
C3_Witness ==
  \E id \in Ids : Row(id).status = "failed" /\ pc[id] = "returned"

\* C4: once the record exists, a failure of the pipeline (TTS, assembly or
\* audio upload) leaves the record with status failed.
C4_FailureMarksFailed ==
  \A r \in Requests :
    (r \in Ids /\ response[r].status = 400) => Row(r).status = "failed"

\* C5: every conversion whose record has been created eventually reaches
\* status done or failed.
C5_EventuallyTerminal ==
  \A r \in Requests :
    (r \in Ids) ~> (r \in Ids /\ Row(r).status \in Terminal)

\* C6: if the upload of the output audio returns an error, the record is
\* never done: no status done, no audio path, no progress 100.
C6_UploadErrorNotDone ==
  \A r \in Requests :
    (audioUploadError[r] = "error" /\ r \in Ids) =>
      /\ Row(r).status # "done"
      /\ Row(r).audio_storage_path = Null
      /\ Row(r).progress # 100

\* The upload failed and the handler has returned.
C6_Witness ==
  \E r \in Requests :
    audioUploadError[r] = "error" /\ r \in Ids /\ pc[r] = "returned"

\* C7: the response carrying the conversion id is sent while the record is
\* converting and the synthesis is still to run.
C7_RespondsBeforeSynthesis ==
  [][\A r \in Requests :
       (response[r].status = 0 /\ response'[r].status = 200) =>
         /\ r \in DOMAIN conversions'
         /\ conversions'[r].status = "converting"
         /\ pc'[r] \in {"loop", "tts"}]_vars

\* C8: a non-success TTS response for a segment ends the loop: that
\* request is the last one issued, the segment was requested once, and no
\* audio object of the conversion is in the bucket.
C8_TtsFailureAborts ==
  \A r \in Requests :
    \A p \in 1..Len(ttsLog[r]) :
      ttsLog[r][p].result = "http" =>
        /\ p = Len(ttsLog[r])
        /\ \A q \in 1..Len(ttsLog[r]) :
             ttsLog[r][q].seg = ttsLog[r][p].seg => q = p
        /\ AudioPath(r) \notin audiobooks

\* The second or a later segment failed and the handler has returned.
C8_Witness ==
  \E r \in Requests :
    /\ Len(ttsLog[r]) >= 2
    /\ ttsLog[r][Len(ttsLog[r])].result = "http"
    /\ pc[r] = "returned"

\* The TTS requests of r that were answered with audio.
Succeeded(r) == {p \in 1..Len(ttsLog[r]) : ttsLog[r][p].result = "ok"}

\* C9: the chapters of a failed record are those of the segments whose
\* audio was produced before the failure.
C9_FailedChaptersPartial ==
  \A r \in Requests :
    (r \in Ids /\ Row(r).status = "failed") =>
      /\ Len(Row(r).chapters) = Cardinality(Succeeded(r))
      /\ Row(r).chapters = chapterMeta[r]

\* C10: the persisted progress is an integer in 0..100, and while the
\* record is not done or failed no update decreases it.
C10_ProgressMonotone ==
  [][\A id \in DOMAIN conversions' :
       /\ conversions'[id].progress \in 0..100
       /\ (id \in Ids /\ Row(id).status \notin Terminal) =>
            conversions'[id].progress >= Row(id).progress]_vars

\* The loop has pushed the progress of the last of several segments.
C10_Witness ==
  \E id \in Ids :
    /\ Row(id).status = "converting"
    /\ Len(chapters[id]) >= 2
    /\ Row(id).progress = ProgressFor(Len(chapters[id]) - 1, Len(chapters[id]))
    /\ i[id] = Len(chapters[id]) - 1

\* The request last issued for the segments of id, if any.
LastRequest(id) == ttsLog[id][Len(ttsLog[id])]

\* The step changes the persisted progress of id inside the segment loop
\* and leaves the record converting.
LoopPush(id) ==
  /\ id \in Ids
  /\ pc[id] \in {"loop", "tts"}
  /\ conversions'[id].progress # Row(id).progress
  /\ conversions'[id].status = "converting"

C12_ExtractionFailureNoRecord ==
  \A r \in Requests :
    thrown[r] \in ExtractionErrors =>
      /\ r \notin Ids
      /\ ttsLog[r] = << >>
      /\ pc[r] \in {"catch", "returned"}
      /\ pc[r] = "returned" =>
           /\ response[r].status = 400
           /\ response[r].error = thrown[r]

\* A request whose document gave no text has been answered.
C12_Witness ==
  \E r \in Requests :
    /\ thrown[r] = "No text could be extracted from the document"
    /\ pc[r] = "returned"
    /\ response[r].status = 400

\* C17: export-kdp-json answers a request for a record whose status is not
\* done (parsing, converting or failed when it is read) with the error
\* "Conversion not complete" and without a metadata document; a document
\* is returned only for a record that is done.
C17_ExportOnlyWhenDone ==
  readerResponse.op = "export" =>
    /\ readerResponse.seen \in Statuses \ {"done"} =>
         /\ readerResponse.status = 400
         /\ readerResponse.error = "Conversion not complete"
         /\ readerResponse.body = Null
    /\ readerResponse.body # Null =>
         /\ readerResponse.id \in Ids
         /\ Row(readerResponse.id).status = "done"

\* The export of a record that was still converting has been refused.
C17_Witness ==
  /\ readerResponse.op = "export"
  /\ readerResponse.seen = "converting"
  /\ readerResponse.error = "Conversion not complete"

\* C18: get-audiobook-audio returns audio only for a record whose status
\* is done: in every reachable state, a response that carries audio names
\* a done record, and every other response carries none.
C18_AudioOnlyWhenDone ==
  readerResponse.op = "audio" =>
    /\ readerResponse.body # Null =>
         /\ readerResponse.status = 200
         /\ readerResponse.id \in Ids
         /\ Row(readerResponse.id).status = "done"
         /\ Row(readerResponse.id).audio_storage_path = readerResponse.body
    /\ readerResponse.status # 200 => readerResponse.body = Null

\* The audio of a record was asked for after the upload and before the
\* record was marked done, and was refused.
C18_Witness ==
  \E id \in Ids :
    /\ readerResponse = ReadError("audio", id, "Audio not found", "")
    /\ AudioPath(id) \in audiobooks
    /\ Row(id).status # "done"

\* C19: every segment splitIntoChapters returns, a whole chapter or a part
\* of one, has a content of at most MAX_CHUNK_CHARS characters.
C19_SegmentsWithinLimit ==
  segPc = "returned" =>
    \A k \in 1..Len(segChapters) :
      Len(segChapters[k].content) <= MAX_CHUNK_CHARS

\* A chapter under a heading was too long and has been split into parts,
\* one of them as long as the limit allows.
C19_Witness ==
  /\ segPc = "returned"
  /\ Cardinality(MatchIndexes(segText)) >= 2
  /\ \E k \in 1..Len(segChapters) :
       /\ segChapters[k].title.part >= 2
       /\ segChapters[k].title.base # <<"Full Text">>
  /\ \E k \in 1..Len(segChapters) :
       Len(segChapters[k].content) = MAX_CHUNK_CHARS

\* C20: for a text that is not white space only, splitIntoChapters returns
\* a non-empty list and no segment of it has an empty content.
C20_NoEmptySegment ==
  (segPc = "returned" /\ Trim(segText) # << >>) =>
    /\ Len(segChapters) > 0
    /\ \A k \in 1..Len(segChapters) : segChapters[k].content # << >>

\* C13: once 100 polls in a row have been answered with a record that is
\* neither done nor failed, the interval is cleared, the page has shown
\* the toast "Conversion timed out" and has left the converting state.
C13_PollTimeout ==
  nonTerminalPolls >= MAX_POLLS =>
    /\ ~poll
    /\ "Conversion timed out" \in toasts
    /\ state # "converting"

\* C14: once 5 polls in a row have been answered without a record, the
\* interval is cleared, the page has shown the toast "Connection error"
\* and has left the converting state.
C14_ConnectionError ==
  consecutiveErrors >= MAX_CONSECUTIVE_ERRORS =>
    /\ ~poll
    /\ "Connection error" \in toasts
    /\ state # "converting"

\* C15: the step in which a poll first observes the status failed clears
\* the interval, shows the toast of a failed conversion and none of the
\* time-out or connection-error toasts, and takes a converting page back
\* to the settings.
C15_FailedShown ==
  [][("failed" \in observed' /\ "failed" \notin observed) =>
       /\ ~poll'
       /\ "Conversion failed" \in toasts'
       /\ toasts' \cap {"Conversion timed out", "Connection error"} = {}
       /\ state = "converting" => state' = "settings"]_vars

\* C16: the step in which a poll observes the status done clears the
\* interval and records the result; once done has been observed no poll
\* query is sent; and the page enters the done state only from the
\* converting state, after a poll has observed done.
C16_DoneAfterPoll ==
  [][/\ ("done" \in observed' /\ "done" \notin observed) =>
          (~poll' /\ conversionResult' = Some(cId))
     /\ "done" \in observed =>
          (inflight' <= inflight /\ inflightAnon' <= inflightAnon)
     /\ (state' = "done" /\ state # "done") =>
          (state = "converting" /\ "done" \in observed)]_vars

\* The characters of s that are not white space, in order.
IsVisible(c) == c \notin WhiteSpace
Visible(s) == SelectSeq(s, IsVisible)

\* The contents of the segments, one after the other.
RECURSIVE ConcatContents(_)
ConcatContents(segs) ==
  IF segs = << >> THEN << >>
  ELSE Head(segs).content \o ConcatContents(Tail(segs))

\* C21: the contents of the segments returned, put together in order, are
\* the text with nothing but white space left out: every visible character
\* of the text is there once, in its place.
C21_ContentPreserved ==
  segPc = "returned" =>
    Visible(ConcatContents(segChapters)) = Visible(segText)

\* The positions (from 1) of the headings that start a line of the text.
Markers(text) ==
  {k \in 1..Len(text) :
     text[k] = "C" /\ (k = 1 \/ text[k - 1] = "\n")}

\* The k-th smallest element of S.
Nth(S, k) == CHOOSE x \in S : Cardinality({y \in S : y < x}) = k - 1

\* The line of the text that starts at position k, without its line break.
LineAt(text, k) ==
  LET breaks == {q \in k..Len(text) : text[q] = "\n"} IN
  SubSeq(text, k, IF breaks = {} THEN Len(text) ELSE Min(breaks) - 1)

\* C22: with two or more headings at line starts there is one raw chapter
\* for each, in order, whose content is the text from the heading up to the
\* next heading (or the end), trimmed, and whose title is the trimmed
\* heading line; with fewer there is one raw chapter "Full Text" that is
\* the whole text.
C22_RawChapters ==
  segPc = "returned" =>
    LET ms == Markers(segText)
        n == Cardinality(ms)
    IN IF n >= 2
         THEN /\ Len(segRaw) = n
              /\ \A k \in 1..n :
                   /\ segRaw[k].title = Trim(LineAt(segText, Nth(ms, k)))
                   /\ segRaw[k].content =
                        Trim(SubSeq(segText, Nth(ms, k),
                                    IF k < n THEN Nth(ms, k + 1) - 1
                                             ELSE Len(segText)))
         ELSE segRaw = <<[title |-> <<"Full Text">>, content |-> segText]>>

\* A text with something before the first of two headings, the first with
\* words after it, has been cut into two raw chapters.
C22_Witness ==
  /\ segPc = "returned"
  /\ Len(segRaw) = 2
  /\ segText[1] = "a"
  /\ Len(segRaw[1].content) >= 2
  /\ segRaw[2].title = <<"C">>

\* Where in the list returned the segments of each raw chapter start: at
\* every segment that is unsplit (part 0) or a first part.
GroupStarts == {k \in 1..Len(segChapters) : segChapters[k].title.part <= 1}

\* C23: the list returned is the raw chapters in order, each either one
\* segment with the title and the content of the raw chapter, when that
\* content is within MAX_CHUNK_CHARS, or else parts titled with the raw
\* chapter's title and Part 1, 2, 3, .. in this order.
C23_PartsNumbered ==
  segPc = "returned" =>
    /\ Cardinality(GroupStarts) = Len(segRaw)
    /\ \A j \in 1..Len(segRaw) :
         LET first == Nth(GroupStarts, j)
             last == IF j < Len(segRaw) THEN Nth(GroupStarts, j + 1) - 1
                                        ELSE Len(segChapters)
         IN IF Len(segRaw[j].content) <= MAX_CHUNK_CHARS
              THEN /\ last = first
                   /\ segChapters[first] =
                        [title |-> [base |-> segRaw[j].title, part |-> 0],
                         content |-> segRaw[j].content]
              ELSE \A m \in first..last :
                     segChapters[m].title =
                       [base |-> segRaw[j].title, part |-> m - first + 1]

\* Of two raw chapters the first was within the limit and is returned as
\* it is, the second was cut into two parts or more.
C23_Witness ==
  /\ segPc = "returned"
  /\ Len(segRaw) = 2
  /\ Len(segRaw[1].content) <= MAX_CHUNK_CHARS
  /\ segChapters[1].title.part = 0
  /\ Len(segChapters) >= 3
  /\ segChapters[3].title.part = 2

\* C28: the synthesis requests of a job are sent one at a time in the
\* order of the segments: the p-th request is for segment p - 1, every
\* request but the last has been answered with audio that is kept, and so
\* at most one request is in flight.
C28_OneRequestAtATime ==
  \A r \in Requests :
    /\ \A p \in 1..Len(ttsLog[r]) :
         /\ ttsLog[r][p].seg = p - 1
         /\ p < Len(ttsLog[r]) =>
              /\ ttsLog[r][p].result = "ok"
              /\ Len(audioChunks[r]) >= p
              /\ audioChunks[r][p].seg = p - 1
    /\ Cardinality({p \in 1..Len(ttsLog[r]) :
                      ttsLog[r][p].result = "inflight"}) <= 1

\* The request of the third segment is in flight after the first two were
\* answered.
C28_Witness ==
  \E r \in Requests :
    /\ Len(ttsLog[r]) = 3
    /\ ttsLog[r][3].seg = 2
    /\ ttsLog[r][3].result = "inflight"
    /\ Len(audioChunks[r]) = 2

\* The sum of the durationSeconds of the first k entries of a chapter list.
RECURSIVE DurationSum(_, _)
DurationSum(list, k) ==
  IF k = 0 THEN 0 ELSE DurationSum(list, k - 1) + list[k].durationSeconds

\* C29: the chapters of a done record are one per segment, in the order of
\* the segments; each lasts the byte length of its audio / 16000; the first
\* starts at 0 and each later one at the sum of the durations before it;
\* total_duration_seconds is the sum of all the durations.
C29_ChapterTimes ==
  \A id \in Ids :
    Row(id).status = "done" =>
      LET list == Row(id).chapters IN
      /\ Len(list) = Len(chapters[id])
      /\ \A k \in 1..Len(list) :
           /\ list[k].title = chapters[id][k].title
           /\ 16000 * list[k].durationSeconds = audioChunks[id][k].len
           /\ list[k].startSeconds = DurationSum(list, k - 1)
      /\ Row(id).total_duration_seconds = Some(DurationSum(list, Len(list)))

\* A done record of three chapters of different lengths.
C29_Witness ==
  \E id \in Ids :
    /\ Row(id).status = "done"
    /\ Len(Row(id).chapters) = 3
    /\ Row(id).chapters[1].durationSeconds = 3
    /\ Row(id).chapters[2].durationSeconds = 1
    /\ Row(id).chapters[3].startSeconds = 4

\* C24: a conversion record exists, and TTS requests have been issued, only
\* for a request whose voiceCloneId names a clone of the calling user that
\* the cloning call made ready, with an engine voice id, and every TTS
\* request goes to that voice id; a request naming a clone that is not
\* ready is turned away with no record and no TTS request.
C24_OwnReadyCloneOnly ==
  \A r \in Requests :
    /\ (r \in Ids \/ ttsLog[r] # <<>>) =>
         LET id == request[r].voiceCloneId IN
         /\ request[r].auth \in Users
         /\ id \in DOMAIN voiceClones
         /\ voiceClones[id].user_id = request[r].auth
         /\ voiceClones[id].status = "ready"
         /\ voiceClones[id].elevenlabs_voice_id # Null
         /\ cloneResponse[id].status = 200
         /\ \A p \in 1..Len(ttsLog[r]) :
              Some(ttsLog[r][p].voice_id) = voiceClones[id].elevenlabs_voice_id
    /\ thrown[r] = "Voice clone not ready" =>
         /\ r \notin Ids
         /\ ttsLog[r] = <<>>

\* A clone made in this run is ready and a TTS request of a conversion
\* with it is in flight.
C24_Witness ==
  \E r \in Requests :
    /\ r \in Ids
    /\ Len(ttsLog[r]) = 2
    /\ ttsLog[r][2].voice_id = "el1"
    /\ request[r].voiceCloneId = "v1"
    /\ voiceClones["v1"].user_id = "u1"
    /\ cloneCaller["v1"] = "none"

\* C25: once clone-voice has answered, the record it created is "ready" or
\* "failed", never "processing"; where it answered with an error the
\* record is "failed".
C25_NeverStuckProcessing ==
  \A c \in CloneRequests :
    (c \in DOMAIN voiceClones /\ clonePc[c] = "returned") =>
      /\ voiceClones[c].status \in {"ready", "failed"}
      /\ cloneResponse[c].status = 400 => voiceClones[c].status = "failed"

\* C26: a request without an authenticated user creates no record and is
\* answered with an authorization error, in convert-to-audiobook and in
\* clone-voice; a voice clone record carries the id of the authenticated
\* user whose request created it.
C26_NoIdentityNoRecord ==
  /\ \A r \in Requests :
       request[r].auth \in {"none", "bad"} =>
         /\ r \notin Ids
         /\ pc[r] = "returned" =>
              response[r].error \in
                {"Missing authorization header", "Unauthorized"}
  /\ \A c \in CloneRequests :
       c \in DOMAIN voiceClones =>
         /\ cloneCaller[c] \in Users
         /\ voiceClones[c].user_id = cloneCaller[c]

\* C27: a request of an authenticated user with a stock voice key and no
\* cloned voice is not turned away for its voice, and every TTS request of
\* it goes to the engine voice id VOICE_MAP gives the key.
C27_StockVoiceAccepted ==
  \A r \in Requests :
    (/\ request[r].auth \in Users
     /\ request[r].voice \in DOMAIN VOICE_MAP
     /\ request[r].voiceCloneId = "") =>
      /\ thrown[r] \notin {"Missing documentPath or voiceCloneId",
                            "Voice clone not found", "Voice clone not ready"}
      /\ \A p \in 1..Len(ttsLog[r]) :
           ttsLog[r][p].voice_id = VOICE_MAP[request[r].voice]

\* C30: the TTS request of segment k of n carries as previous context the
\* last min(200, length) characters of segment k - 1 and as next context
\* the first min(200, length) characters of segment k + 1; the request of
\* the first segment carries no previous context and that of the last no
\* next context.
C30_ContextOfNeighbours ==
  \A r \in Requests :
    \A p \in 1..Len(ttsLog[r]) :
      LET q == ttsLog[r][p]
          k == q.seg
          n == Len(chapters[r])
          len(j) == chapters[r][j + 1].charCount
          least(j) == IF len(j) < 200 THEN len(j) ELSE 200
      IN
      /\ q.previous_text =
           IF k = 0 THEN Null
           ELSE Some([seg |-> k - 1, from |-> len(k - 1) - least(k - 1),
                      to |-> len(k - 1)])
      /\ q.next_text =
           IF k = n - 1 THEN Null
           ELSE Some([seg |-> k + 1, from |-> 0, to |-> least(k + 1)])

\* The request of the second of three segments carries the whole of a
\* first segment of 150 characters and the first 200 of a third of 4500.
C30_Witness ==
  \E r \in Requests :
    /\ Len(ttsLog[r]) >= 2
    /\ Len(chapters[r]) = 3
    /\ ttsLog[r][2].seg = 1
    /\ ttsLog[r][2].previous_text = Some([seg |-> 0, from |-> 0, to |-> 150])
    /\ ttsLog[r][2].next_text = Some([seg |-> 2, from |-> 0, to |-> 200])

\* The positions of the sentence ends of a text: a full stop before a
\* blank or a line break, a question or exclamation mark before a blank.
SentenceEnds(s) ==
  {k \in 0..(Len(s) - 2) :
     \/ s[k + 1] = "." /\ s[k + 2] \in {" ", "\n"}
     \/ s[k + 1] = "?" /\ s[k + 2] = " "}

\* The largest of a non-empty set of numbers.
Greatest(S) == CHOOSE x \in S : \A y \in S : y <= x

\* C31: a part that is not the last is cut right after the last sentence
\* end within the first MAX_CHUNK_CHARS characters of the remainder, where
\* that sentence end lies past 30% of MAX_CHUNK_CHARS, and at exactly
\* MAX_CHUNK_CHARS characters otherwise; no such cut is at or before the
\* 30% mark.
C31_CutAtSentenceEnd ==
  [][(chunkPc = "loop" /\ Len(remaining) > MAX_CHUNK_CHARS) =>
       LET ends == SentenceEnds(SubSeq(remaining, 1, MAX_CHUNK_CHARS))
           past == {k \in ends : 10 * k > 3 * MAX_CHUNK_CHARS}
       IN
       /\ cutoff' = IF past # {} THEN Greatest(past) + 1
                                 ELSE MAX_CHUNK_CHARS
       /\ 10 * cutoff' > 3 * MAX_CHUNK_CHARS
       /\ Len(chunks') = Len(chunks) + 1
       /\ chunks'[Len(chunks')].content =
            Trim(SubSeq(remaining, 1, cutoff'))]_vars

\* A first part cut after a sentence end short of the limit, and a rest.
C31_Witness ==
  /\ chunkPc = "loop"
  /\ Len(chunks) = 1
  /\ cutoff = 2
  /\ chunkText[2] = "?"
  /\ Len(remaining) > 0

\* C35: every pass of the loop of splitTextIntoChunks that does not end it
\* cuts at least one character and leaves a shorter remainder, the parts
\* are never more than the characters of the text, and the function
\* returns.
C35_ChunkingTerminates ==
  /\ [][(chunkPc = "loop" /\ chunkPc' = "loop") =>
          /\ cutoff' >= 1
          /\ Len(remaining') < Len(remaining)]_vars
  /\ [](Len(chunks) <= Len(chunkText) \/ Len(chunkText) = 0)
  /\ <>(chunkPc = "returned")

\* The function has returned two parts: a pass cut three of six
\* characters and the next pass ended the loop with the rest.
C35_Witness ==
  /\ chunkPc = "returned"
  /\ Len(chunkText) = 6
  /\ Len(chunks) = 2
  /\ cutoff = 3
  /\ Len(remaining) = 3

\* What the loop returns is what splitTextIntoChunks returns.
ChunkLoopAgrees ==
  chunkPc = "returned" => chunks = splitTextIntoChunks(chunkText, <<"Full Text">>)

\* C32: a record that is converting holds one skeleton entry, title and
\* character count, for every segment, in the order of the segments; a
\* record that is done holds one timed entry for every segment, with the
\* same titles in the same order.
C32_ChaptersPerSegment ==
  \A id \in Ids :
    /\ Row(id).status = "converting" =>
         Row(id).chapters =
           [k \in 1..Len(chapters[id]) |->
              [index |-> k - 1, title |-> chapters[id][k].title,
               charCount |-> chapters[id][k].charCount]]
    /\ Row(id).status = "done" =>
         /\ Len(Row(id).chapters) = Len(chapters[id])
         /\ \A k \in 1..Len(chapters[id]) :
              /\ Row(id).chapters[k].title = chapters[id][k].title
              /\ DOMAIN Row(id).chapters[k] =
                   {"title", "startSeconds", "durationSeconds"}

\* The sum of the lengths of the first k buffers of a list.
RECURSIVE LengthSum(_, _)
LengthSum(list, k) ==
  IF k = 0 THEN 0 ELSE LengthSum(list, k - 1) + list[k].len

\* C33: the buffer that is uploaded is as long as the audio buffers of the
\* segments together, and the bytes of segment k lie in it from the offset
\* that is the length of the buffers before it, in the order of the
\* segments, each right after the one before.
C33_AudioConcatenated ==
  \A r \in Requests :
    audioUploadError[r] # "unset" =>
      LET list == audioChunks[r]
          layout == combined[r].layout
      IN
      /\ combined[r].length = LengthSum(list, Len(list))
      /\ Len(layout) = Len(chapters[r])
      /\ \A k \in 1..Len(layout) :
           /\ layout[k].chunk = k - 1
           /\ layout[k].length = list[k].len
           /\ layout[k].offset = LengthSum(list, k - 1)
           /\ layout[k].offset + layout[k].length =
                IF k < Len(layout) THEN layout[k + 1].offset
                                   ELSE combined[r].length

\* The audio of three segments of different lengths has been uploaded.
C33_Witness ==
  \E r \in Requests :
    /\ AudioPath(r) \in audiobooks
    /\ combined[r].length = 80000
    /\ Len(combined[r].layout) = 3
    /\ combined[r].layout[2].offset = 16000
    /\ combined[r].layout[3].offset = 64000

\* What a request's invocation of the handler holds of its own.
OwnLocals(r) ==
  <<chapters[r], i[r], audioChunks[r], chapterMeta[r], totalDuration[r],
    combined[r], ttsLog[r], request[r], voice[r]>>

\* C34: of two requests running at once, a step of the one leaves the
\* record, the audio object and the locals of the other as they are; the
\* objects in the bucket lie under paths that begin with the id of the
\* user of their request and carry the id of their conversion, different
\* for the two; and a record that is done holds what its own request
\* produced, as it would after a run alone.
C34_JobsIsolated ==
  /\ [][\A r \in Jobs :
          pc'[r] = pc[r] =>
            /\ (r \in DOMAIN conversions') = (r \in DOMAIN conversions)
            /\ r \in DOMAIN conversions => conversions'[r] = conversions[r]
            /\ (AudioPath(r) \in audiobooks') = (AudioPath(r) \in audiobooks)
            /\ OwnLocals(r)' = OwnLocals(r)]_vars
  /\ [](\A r \in Jobs :
          /\ \A q \in Jobs \ {r} :
               (request[r].auth \in Users /\ request[q].auth \in Users) =>
                 AudioPath(r) # AudioPath(q)
          /\ AudioPath(r) \in audiobooks =>
               /\ AudioPath(r)[1] = request[r].auth
               /\ AudioPath(r)[1] \in Users
               /\ AudioPath(r)[2] = r
          /\ (r \in DOMAIN conversions /\ conversions[r].status = "done") =>
               conversions[r] =
                 [status |-> "done", progress |-> 100,
                  audio_storage_path |-> Some(<<request[r].auth, r, "mp3">>),
                  total_duration_seconds |-> Some(totalDuration[r]),
                  chapters |-> chapterMeta[r]])
  /\ [](audiobooks \subseteq {<<request[r].auth, r, "mp3">> : r \in Jobs})

\* Both requests are under way: one has uploaded its audio and the other
\* waits for the engine.
C34_Witness ==
  /\ pc["c1"] = "markdone"
  /\ pc["c2"] = "tts"
  /\ {"c1", "c2"} \subseteq DOMAIN conversions
  /\ <<"u1", "c1", "mp3">> \in audiobooks
  /\ request["c2"].auth = "u1"

\* C36: while the page is in the converting state, no update of the
\* progress it displays sets a lower value than the one displayed.
C36_DisplayedProgressMonotone ==
  [][(state = "converting" /\ state' = "converting") =>
       progress' >= progress]_vars

\* C37: once the user has signed out of a page that polls a conversion,
\* the page stays in the auth state until a sign-in succeeds; until then
\* no poll result changes the conversion or the progress displayed, and
\* no further poll query is sent.
C37_SignOutStopsPolling ==
  [][(state = "auth" /\ convertPc = "polling") =>
       /\ state' = "auth" \/ (session' /\ state' = "upload")
       /\ state' = "auth" =>
            /\ conversionResult' = conversionResult
            /\ progress' = progress
            /\ inflight' + inflightAnon' <= inflight + inflightAnon]_vars

(***************************************************************************)
(* The voice-settings panel: VoiceSettings.tsx, handlePreview.             *)
(***************************************************************************)

\* The voices whose preview buttons the user presses: two of const VOICES.
PreviewVoices == {"george", "sarah"}

\* What the fetch of the preview settles to: a response that is ok, one
\* that is not, or a rejection.
FetchOutcomes == {"ok", "notOk", "rejected"}

\* An Audio element between play() and pause(), its end or a refusal: the
\* promise of play() is pending ("starting") or resolved ("playing").
Sounding(a) == audios[a].state \in {"starting", "playing"}

\* audio.pause(): an element that sounds stops, and a pending promise of
\* play() is going to be rejected; any other element is left as it is.
Paused(list, ref) ==
  IF ref = Null THEN list
  ELSE LET a == ref[1]
       IN [list EXCEPT ![a].state =
             CASE list[a].state = "starting" -> "aborted"
               [] list[a].state = "playing" -> "paused"
               [] OTHER -> list[a].state]

\* Lines 37-49: a click on the preview button of voiceId, up to the first
\* await. The element of audioRef is paused and forgotten; when voiceId is
\* the voice shown as playing, that is all.
HandlePreview(voiceId) ==
  /\ audios' = Paused(audios, audioRef)
  /\ audioRef' = Null
  /\ IF playingVoice = Some(voiceId)
     THEN /\ playingVoice' = Null
          /\ UNCHANGED <<previewingVoice, previews>>
     ELSE /\ Len(previews) < MaxPreviews
          /\ previewingVoice' = Some(voiceId)
          /\ previews' = Append(previews, [voiceId |-> voiceId, at |-> "getSession"])
          /\ UNCHANGED playingVoice
  /\ UNCHANGED <<previewToasts, notPanel>>

\* Lines 51-68 and 100-102: getSession() has resolved. Without a session
\* the call ends with a toast, through the finally block; with one the
\* preview is fetched.
HandlePreviewSession(k, hasSession) ==
  /\ previews[k].at = "getSession"
  /\ IF hasSession
     THEN /\ previews' = [previews EXCEPT ![k].at = "fetch"]
          /\ UNCHANGED <<previewingVoice, previewToasts>>
     ELSE /\ previews' = [previews EXCEPT ![k].at = "settled"]
          /\ previewToasts' = previewToasts \cup {"Not signed in"}
          /\ previewingVoice' = Null
  /\ UNCHANGED <<playingVoice, audioRef, audios, notPanel>>

\* Lines 70-102: the fetch has settled. A response that is ok gives a new
\* Audio element, which audioRef is set to and which is played; anything
\* else gives a toast. The finally block clears previewingVoice.
HandlePreviewFetched(k, outcome) ==
  /\ previews[k].at = "fetch"
  /\ previews' = [previews EXCEPT ![k].at = "settled"]
  /\ IF outcome = "ok"
     THEN /\ audios' = Append(audios, [voice |-> previews[k].voiceId,
                                       state |-> "starting"])
          /\ audioRef' = Some(Len(audios) + 1)
          /\ playingVoice' = Some(previews[k].voiceId)
          /\ UNCHANGED previewToasts
     ELSE /\ previewToasts' = previewToasts \cup {"Preview failed"}
          /\ UNCHANGED <<audios, audioRef, playingVoice>>
  /\ previewingVoice' = Null
  /\ UNCHANGED notPanel

\* Line 93: the promise of audio.play() resolves, and nothing is chained
\* to it.
PlayResolved(a) ==
  /\ audios[a].state = "starting"
  /\ audios' = [audios EXCEPT ![a].state = "playing"]
  /\ UNCHANGED <<previewingVoice, playingVoice, audioRef, previews,
                 previewToasts, notPanel>>

\* Lines 93-98: the promise of audio.play() is rejected, because the browser
\* refuses to play or because the element was paused before it began.
PlayCatch(a) ==
  /\ audios[a].state \in {"starting", "aborted"}
  /\ audios' = [audios EXCEPT ![a].state =
                  IF audios[a].state = "starting" THEN "blocked" ELSE "paused"]
  /\ previewToasts' = previewToasts \cup {"Playback blocked"}
  /\ playingVoice' = Null
  /\ audioRef' = Null
  /\ UNCHANGED <<previewingVoice, previews, notPanel>>

\* Lines 87-91: audio.onended.
Onended(a) ==
  /\ audios[a].state = "playing"
  /\ audios' = [audios EXCEPT ![a].state = "ended"]
  /\ playingVoice' = Null
  /\ audioRef' = Null
  /\ UNCHANGED <<previewingVoice, previews, previewToasts, notPanel>>

PanelNext ==
  \/ \E voiceId \in PreviewVoices : HandlePreview(voiceId)
  \/ \E k \in DOMAIN previews, hasSession \in BOOLEAN :
       HandlePreviewSession(k, hasSession)
  \/ \E k \in DOMAIN previews, outcome \in FetchOutcomes :
       HandlePreviewFetched(k, outcome)
  \/ \E a \in DOMAIN audios : PlayResolved(a)
  \/ \E a \in DOMAIN audios : PlayCatch(a)
  \/ \E a \in DOMAIN audios : Onended(a)

PanelSpec == Init /\ [][PanelNext]_vars

\* The calls of handlePreview for voice v that have not settled.
InFlight(v) ==
  {k \in DOMAIN previews : previews[k].voiceId = v /\ previews[k].at # "settled"}

\* C38: at most one preview element sounds at a time; the voice shown as
\* playing is the voice of the element that sounds, and no voice is shown
\* as playing when none does; and a click on the button of the voice shown
\* as playing leaves no element sounding and starts no fetch.
C38_OnePreviewPlaying ==
  /\ [](Cardinality({a \in DOMAIN audios : Sounding(a)}) <= 1)
  /\ [](\A a \in DOMAIN audios : Sounding(a) => playingVoice = Some(audios[a].voice))
  /\ [](playingVoice # Null =>
          \E a \in DOMAIN audios : Sounding(a) /\ playingVoice = Some(audios[a].voice))
  /\ [][\A v \in PreviewVoices :
          (playingVoice = Some(v) /\ HandlePreview(v)) =>
             /\ previews' = previews
             /\ \A a \in DOMAIN audios' : ~Sounding(a)']_vars

\* C39: the button of a voice shows the loading state exactly while a call
\* of handlePreview for that voice has not settled.
C39_LoadingWhileInFlight ==
  \A v \in PreviewVoices : (previewingVoice = Some(v)) <=> (InFlight(v) # {})

====
